---- MODULE Spec2Model ----
(***************************************************************************)
(* Model of the resource synchronisation core of hi_canvas_api:            *)
(*   - the paginated walks get_submissions and get_all_students,           *)
(*   - add_assignment (create / update / abort) driven by                  *)
(*     examples/create_assigment.py,                                       *)
(*   - save_submissions_with_attachments.                                  *)
(* The remote service is the environment: every response is chosen when    *)
(* the request is issued; the requests issued and the responses received   *)
(* are kept as histories.                                                  *)
(***************************************************************************)
EXTENDS Integers, Sequences, FiniteSets, TLC

VARIABLES
    walk_fn,        \* which walk runs: "get_submissions" | "get_all_students" | "none"
    walk_url,       \* submissions_url / url: the locator fetched next, NoUrl when None
    walk_params,    \* get_all_students: TRUE while params still holds the query
    walk_acc,       \* submissions / students accumulated so far
    response,       \* the most recent page response (status, body, headers)
    reqs,           \* history: every HTTP request issued, in order
    resps,          \* history: status, items and text of every page response
    walk_result     \* outcome of the walk: pending, return value, or raised error

VARIABLES
    assignment_data,     \* the assignment description loaded from --input_json
    groups_remote,       \* remote: the assignment groups the service lists
    remote,              \* remote: assignment id -> record held by the service
    remote_start,        \* history: remote as it was when the current run began
    pc,                  \* position of create_assigment.main / add_assignment
    run,                 \* number of the current run of main
    payload,             \* the dict main passes to add_assignment (mutated by it)
    group_id,            \* main's group_id
    existing_assignment, \* add_assignment's existing_assignment
    log,                 \* logging output, in order
    runs                 \* history: path and outcome of add_assignment in each run

VARIABLES
    mat_pc,         \* position of save_submissions_with_attachments
    submissions,    \* remote: the submissions of the assignment, as fetched
    sub_i,          \* index of the submission the outer loop is at
    att_i,          \* index of the attachment the inner loop is at
    dirs,           \* local tree: the directories that exist
    files,          \* local tree: the files that exist, with their content
    events,         \* history: what was done for each submission and attachment
    mat_result,     \* outcome of save_submissions_with_attachments
    mat_first       \* history: the requests and events of an earlier run, if any

VARIABLES
    rubric_data,     \* the rubric document handed to validate_rubric
    val_result,      \* outcome of validate_rubric: pending, or (ok, messages)
    student_id,      \* the student upload_graded_rubric is called for
    template_exists, \* local tree: os.path.exists(graded_rubric_path)
    graded_rubric,   \* the content of the student's graded rubric file
    query_params,    \* upload_graded_rubric's query_params
    grade_pc,        \* position of upload_graded_rubric
    grade_log,       \* logging output of upload_graded_rubric, in order
    grade_result     \* outcome of upload_graded_rubric

VARIABLES
    tmpl_rubric,    \* the rubric handed to rubric_to_graderubric
    tmpl_result,    \* what the two implementations of rubric_to_graderubric returned
    upload_out,     \* upload_rubric.main after validation: what was printed, how it ended
    cal_pages,      \* remote: the calendar events of the course in the date range, by page
    cal_remote,     \* remote: identities deleted and events created by the service so far
    cal_file,       \* the events loaded from the calendar file
    cal_pc,         \* position of update_calendar
    cal_events,     \* delete_all_calendar_events' events still to be looked at
    cal_i,          \* index of the file event the create loop is at
    cal_result,     \* outcome of update_calendar
    grp_rows,       \* the rows of the groups file
    grp_remote,     \* remote: the groups of the category, as listed
    grp_groups,         \* process_groups' groups: name -> identity
    grp_pc,         \* position of process_groups
    grp_i,          \* index of the row the loop is at
    grp_result      \* outcome of process_groups

tmpl_vars == <<tmpl_rubric, tmpl_result>>

cal_vars == <<cal_pages, cal_remote, cal_file, cal_pc, cal_events, cal_i, cal_result>>

grp_vars == <<grp_rows, grp_remote, grp_groups, grp_pc, grp_i, grp_result>>

more_vars == <<tmpl_vars, upload_out, cal_vars, grp_vars>>

mat_vars == <<mat_pc, submissions, sub_i, att_i, dirs, files, events, mat_result, mat_first>>

val_vars == <<rubric_data, val_result>>

grade_vars == <<student_id, template_exists, graded_rubric, query_params, grade_pc, grade_log, grade_result>>

rubric_vars == <<val_vars, grade_vars>>

walk_vars == <<walk_fn, walk_url, walk_params, walk_acc, response, resps, walk_result>>

upsert_vars == <<assignment_data, groups_remote, remote, remote_start, pc, run, payload,
                 group_id, existing_assignment, log, runs>>

vars == <<walk_vars, reqs, upsert_vars, mat_vars, rubric_vars, more_vars>>

-----------------------------------------------------------------------------
(* Bounds *)
MaxItems == 1       \* items on one page
MaxFetch == 3       \* page requests of one walk

ItemIds == {1, 2}

\* the locators a Link header can name
LinkUrls == {1, 2}

\* submissions_url = None
NoUrl == -1
\* the start locator built from the configuration
StartUrl == 0

SeqsUpTo(S, n) == UNION {[1..k -> S] : k \in 0..n}

RECURSIVE Flatten(_)
Flatten(ss) == IF ss = <<>> THEN <<>> ELSE Head(ss) \o Flatten(Tail(ss))

-----------------------------------------------------------------------------
(* The remote service's page responses *)

\* one entry of the Link header: <url>; rel="name"
LinkEntries == [url : LinkUrls, rel : {"next", "prev"}]

\* response.headers: has_link is `"Link" in response.headers`
Headers == {[has_link |-> FALSE, link |-> <<>>]}
             \cup [has_link : {TRUE}, link : SeqsUpTo(LinkEntries, 2)]

\* the user records of the users endpoint; login is "absent" when the key is missing
Users == {[id |-> 1, name |-> "n", login |-> "u"],
          [id |-> 2, name |-> "n", login |-> "absent"]}

PageItems(fn) == IF fn = "get_all_students" THEN Users ELSE ItemIds

OkResponses(fn) ==
    [status : {200}, items : SeqsUpTo(PageItems(fn), MaxItems), text : {""}, headers : Headers]

ErrResponses ==
    [status : {404, 500}, items : {<<>>}, text : {"e1", "e2"},
     headers : {[has_link |-> FALSE, link |-> <<>>]}]

Responses(fn) == OkResponses(fn) \cup ErrResponses

NoResponse == [status |-> 0, items |-> <<>>, text |-> "", headers |-> [has_link |-> FALSE, link |-> <<>>]]



-----------------------------------------------------------------------------
(* Link header parsing: the first entry holding rel="next" wins *)

RECURSIVE NextLinkFrom(_)
NextLinkFrom(links) ==
    IF links = <<>> THEN NoUrl
    ELSE IF Head(links).rel = "next" THEN Head(links).url
    ELSE NextLinkFrom(Tail(links))

\* the first entry of the header, whatever its relation
NextLinkFirstEntry(h) == IF h.has_link /\ h.link # <<>> THEN h.link[1].url ELSE NoUrl

NextLink(h) == IF h.has_link THEN NextLinkFrom(h.link) ELSE NoUrl

\* response.raise_for_status(): raises for 4xx and 5xx
RaisesForStatus(status) == status >= 400 /\ status < 600

\* get_all_students keeps id, name and login_id (default "") of each user
StudentRow(user) ==
    [id |-> user.id, name |-> user.name,
     login_id |-> IF user.login = "absent" THEN "" ELSE user.login]

StudentRows(page) == [i \in 1..Len(page) |-> StudentRow(page[i])]

Pending == [kind |-> "pending", value |-> <<>>, status |-> 0, text |-> ""]
Returned(v) == [kind |-> "return", value |-> v, status |-> 0, text |-> ""]
Raised(r) == [kind |-> "raise", value |-> <<>>, status |-> r.status, text |-> r.text]

PageRecord(r) == [status |-> r.status, items |-> r.items, text |-> r.text]

-----------------------------------------------------------------------------
(* get_submissions: one iteration of `while submissions_url` *)

ExtendDropsDuplicates(acc, page) ==
    acc \o SelectSeq(page, LAMBDA x : \A i \in 1..Len(acc) : acc[i] # x)

Extend(acc, page) == acc \o page

GetSubmissionsFailPartial(r) == Returned(walk_acc)

GetSubmissionsFail(r) == Raised(r)

GetSubmissionsFetch ==
    /\ walk_fn = "get_submissions"
    /\ walk_result.kind = "pending"
    /\ walk_url # NoUrl
    /\ Len(reqs) < MaxFetch
    /\ \E r \in Responses("get_submissions") :
        /\ reqs' = Append(reqs, [method |-> "GET", url |-> walk_url, params |-> FALSE])
        /\ resps' = Append(resps, PageRecord(r))
        /\ response' = r
        /\ IF r.status # 200
           THEN /\ walk_result' = GetSubmissionsFail(r)
                /\ UNCHANGED <<walk_acc, walk_url>>
           ELSE /\ walk_acc' = Extend(walk_acc, r.items)
                /\ walk_url' = NextLink(r.headers)
                /\ walk_result' = IF walk_url' = NoUrl THEN Returned(walk_acc') ELSE Pending
    /\ UNCHANGED <<walk_fn, walk_params, upsert_vars, more_vars, mat_vars, rubric_vars>>

(* get_all_students: one iteration of `while url` *)
GetAllStudentsFetch ==
    /\ walk_fn = "get_all_students"
    /\ walk_result.kind = "pending"
    /\ walk_url # NoUrl
    /\ Len(reqs) < MaxFetch
    /\ \E r \in Responses("get_all_students") :
        /\ reqs' = Append(reqs, [method |-> "GET", url |-> walk_url, params |-> walk_params])
        /\ resps' = Append(resps, PageRecord(r))
        /\ response' = r
        /\ IF RaisesForStatus(r.status)
           THEN /\ walk_result' = Raised(r)
                /\ UNCHANGED <<walk_acc, walk_url, walk_params>>
           ELSE /\ walk_acc' = walk_acc \o StudentRows(r.items)
                /\ walk_url' = NextLink(r.headers)
                /\ walk_params' = IF walk_url' # NoUrl THEN FALSE ELSE walk_params
                /\ walk_result' = IF walk_url' = NoUrl THEN Returned(walk_acc') ELSE Pending
    /\ UNCHANGED <<walk_fn, upsert_vars, more_vars, mat_vars, rubric_vars>>

WalkStart ==
    /\ walk_fn \in {"get_submissions", "get_all_students"}
    /\ walk_url = StartUrl
    /\ walk_params = (walk_fn = "get_all_students")
    /\ walk_acc = <<>>
    /\ response = NoResponse
    /\ reqs = <<>>
    /\ resps = <<>>
    /\ walk_result = Pending

WalkNext == GetSubmissionsFetch \/ GetAllStudentsFetch

-----------------------------------------------------------------------------
(* Properties of the paginated walks *)

HasNextRel(h) == h.has_link /\ \E i \in 1..Len(h.link) : h.link[i].rel = "next"

PagesServed == [i \in 1..Len(resps) |-> resps[i].items]

\* what the caller of the walk holds: the items of the returned list
SameItems(value, items) ==
    /\ Len(value) = Len(items)
    /\ \A i \in 1..Len(items) :
          IF walk_fn = "get_all_students"
          THEN /\ value[i].id = items[i].id
               /\ value[i].name = items[i].name
               /\ value[i].login_id = (IF items[i].login = "absent" THEN "" ELSE items[i].login)
          ELSE value[i] = items[i]

\* C1: a walk whose k pages all succeed returns the concatenation of the k
\* pages' items in order, after exactly k fetches, and ends at the first page
\* without a `next` relation (while a page with one keeps the walk going).
C1_WalkConcatenation ==
    /\ walk_result.kind = "return" =>
          /\ \A i \in 1..Len(resps) : resps[i].status = 200
          /\ SameItems(walk_result.value, Flatten(PagesServed))
          /\ Len(reqs) = Len(resps)
          /\ ~HasNextRel(response.headers)
    /\ (walk_result.kind = "pending" /\ Len(resps) > 0) =>
          /\ HasNextRel(response.headers)
          /\ \A i \in 1..Len(resps) : resps[i].status = 200

C1_Witness ==
    /\ walk_result.kind = "return"
    /\ Len(resps) = 3
    /\ Len(walk_result.value) = 3
    /\ walk_result.value[1] = walk_result.value[3]

\* C2: a non-success status on page j fails the walk with an error carrying
\* that status and body text, nothing is returned, and page j is the last
\* request issued (j fetches, no retry).
C2_WalkFailsFast ==
    \A j \in 1..Len(resps) :
        (resps[j].status < 200 \/ resps[j].status > 299) =>
            /\ walk_result.kind = "raise"
            /\ walk_result.status = resps[j].status
            /\ walk_result.text = resps[j].text
            /\ walk_result.value = <<>>
            /\ Len(reqs) = j
            /\ \A i \in 1..(j - 1) : resps[i].status = 200

C2_Witness ==
    /\ walk_result.kind = "raise"
    /\ Len(reqs) = 3
    /\ walk_acc # <<>>

-----------------------------------------------------------------------------
(* The walks past the recorded history: the loops have no bound on pages.   *)
(* Once MaxFetch requests are recorded, reqs and resps keep the most recent *)
(* MaxFetch of them; the continuation is followed for pages without items   *)
(* and Link headers of at most one entry, and a walk that has collected     *)
(* items receives its last page next.                                       *)

Slide(history, entry) == Append(Tail(history), entry)

\* get_submissions: a further iteration of `while submissions_url`
GetSubmissionsFetchOn ==
    /\ walk_fn = "get_submissions"
    /\ walk_result.kind = "pending"
    /\ walk_url # NoUrl
    /\ Len(reqs) = MaxFetch
    /\ \E r \in Responses("get_submissions") :
        /\ r.items = <<>> /\ Len(r.headers.link) <= 1
        /\ walk_acc # <<>> => (r.status = 200 /\ r.headers.link = <<>>)
        /\ reqs' = Slide(reqs, [method |-> "GET", url |-> walk_url, params |-> FALSE])
        /\ resps' = Slide(resps, PageRecord(r))
        /\ response' = r
        /\ IF r.status # 200
           THEN /\ walk_result' = GetSubmissionsFail(r)
                /\ UNCHANGED <<walk_acc, walk_url>>
           ELSE /\ walk_acc' = Extend(walk_acc, r.items)
                /\ walk_url' = NextLink(r.headers)
                /\ walk_result' = IF walk_url' = NoUrl THEN Returned(walk_acc') ELSE Pending
    /\ UNCHANGED <<walk_fn, walk_params, upsert_vars, more_vars, mat_vars, rubric_vars>>

\* get_all_students: a further iteration of `while url`
GetAllStudentsFetchOn ==
    /\ walk_fn = "get_all_students"
    /\ walk_result.kind = "pending"
    /\ walk_url # NoUrl
    /\ Len(reqs) = MaxFetch
    /\ \E r \in Responses("get_all_students") :
        /\ r.items = <<>> /\ Len(r.headers.link) <= 1
        /\ walk_acc # <<>> => (r.status = 200 /\ r.headers.link = <<>>)
        /\ reqs' = Slide(reqs, [method |-> "GET", url |-> walk_url, params |-> walk_params])
        /\ resps' = Slide(resps, PageRecord(r))
        /\ response' = r
        /\ IF RaisesForStatus(r.status)
           THEN /\ walk_result' = Raised(r)
                /\ UNCHANGED <<walk_acc, walk_url, walk_params>>
           ELSE /\ walk_acc' = walk_acc \o StudentRows(r.items)
                /\ walk_url' = NextLink(r.headers)
                /\ walk_params' = IF walk_url' # NoUrl THEN FALSE ELSE walk_params
                /\ walk_result' = IF walk_url' = NoUrl THEN Returned(walk_acc') ELSE Pending
    /\ UNCHANGED <<walk_fn, upsert_vars, more_vars, mat_vars, rubric_vars>>

WalkOnNext == WalkNext \/ GetSubmissionsFetchOn \/ GetAllStudentsFetchOn

\* the entry of a Link header that every reader of rel="next" agrees on
NextEntries(h) == {i \in 1..Len(h.link) : h.link[i].rel = "next"}

FirstNextUrl(h) ==
    LET i == CHOOSE i \in NextEntries(h) : \A j \in NextEntries(h) : i <= j
    IN  h.link[i].url

\* the locator the walk has to request after the page it holds
LocatorAfter(r) == IF r = NoResponse THEN StartUrl ELSE FirstNextUrl(r.headers)

\* C26 as claimed: whatever the pages served, the walk eventually ends, with
\* its result or with a fetch error.
C26_Original == <>(walk_result.kind # "pending")

\* C26: the walk is strictly sequential and ends at the first page that fails
\* or carries no next locator: every request is issued with all earlier
\* responses received, for the next locator of the page received last (the
\* start locator at first); the walk is running exactly while the last page
\* succeeded and named a next locator; and once ended it requests nothing.
C26_SequentialUntilLastPage ==
    /\ [](Len(reqs) = Len(resps))
    /\ []((walk_result.kind = "pending" /\ response # NoResponse) <=>
            (response.status = 200 /\ HasNextRel(response.headers)))
    /\ [](response = NoResponse => walk_result.kind = "pending")
    /\ [][/\ walk_result.kind = "pending"
          /\ reqs'[Len(reqs')].url = LocatorAfter(response)
          /\ Len(reqs') = Len(resps')
          /\ response' # NoResponse]_vars

\* three pages fetched in a row, each at the locator the page before named
C26_Witness ==
    /\ walk_result.kind = "return"
    /\ Len(reqs) = MaxFetch
    /\ reqs[MaxFetch - 1].url = 2
    /\ reqs[MaxFetch].url = 1

-----------------------------------------------------------------------------
(* create_assigment.main and add_assignment *)

MaxRuns == 2        \* runs of main with the same input file

\* Python's None (find_group_id's `return None`, a missing "id")
None == -1

\* truthiness of an optional integer: None and 0 are falsy
Truthy(x) == x # None /\ x # 0

GroupIds == {0, 1, 2}

\* names are character sequences
Names == {<<"h", "w">>, <<"H", "W">>, <<"e", "x">>}

\* str.lower() on the characters the names use
LowerChar(c) == CASE c = "H" -> "h" [] c = "W" -> "w" [] c = "E" -> "e" [] c = "X" -> "x" [] OTHER -> c

Lower(name) == [i \in 1..Len(name) |-> LowerChar(name[i])]

\* the group lists the service may hold: identities are unique
GroupLists ==
    {gs \in SeqsUpTo([id : GroupIds, name : Names], 2) :
        \A i, j \in 1..Len(gs) : gs[i].id = gs[j].id => i = j}

AssignmentData ==
    [id : {None, 1}, group_name : Names, published : BOOLEAN, points_possible : {0, 5}]

RemoteRecords == [published : BOOLEAN, points_possible : {0}, assignment_group_id : {1}]

InitialRemotes == {<<>>} \cup {<<r>> : r \in RemoteRecords}

\* statuses the service may answer to a PUT or a POST
WriteStatuses == {200, 201, 204, 400, 500}

\* the service applies a write exactly when it answers with a 2xx status
Applied(status) == status >= 200 /\ status <= 299

NoBody == [id |-> None, published |-> FALSE, points_possible |-> 0, assignment_group_id |-> None]

\* a request and the status the service answered it with
Request(method, url, id, body, status) ==
    [run |-> run, method |-> method, url |-> url, id |-> id, body |-> body,
     status |-> status]

LogEntry(level, msg, id) == [run |-> run, level |-> level, msg |-> msg, id |-> id]

\* what the service stores of a written payload
Content(p) ==
    [published |-> p.published, points_possible |-> p.points_possible,
     assignment_group_id |-> p.assignment_group_id]

\* the dict comprehension of get_assignment_groups: a later group with the same
\* id replaces the name, the key keeps its position
RECURSIVE GroupsDict(_)
GroupsDict(list) ==
    IF list = <<>> THEN <<>>
    ELSE LET d == GroupsDict(SubSeq(list, 1, Len(list) - 1))
             g == list[Len(list)]
         IN  IF \E i \in 1..Len(d) : d[i].id = g.id
             THEN [i \in 1..Len(d) |-> IF d[i].id = g.id THEN g ELSE d[i]]
             ELSE Append(d, g)

find_group_id(group_name, groups) ==
    IF \E i \in 1..Len(groups) : Lower(group_name) = Lower(groups[i].name)
    THEN groups[CHOOSE i \in 1..Len(groups) :
                    /\ Lower(group_name) = Lower(groups[i].name)
                    /\ \A j \in 1..(i - 1) : Lower(group_name) # Lower(groups[j].name)].id
    ELSE None

MainPayloadReadsPoints(data) ==
    [id |-> data.id, published |-> data.published,
     points_possible |-> 0, assignment_group_id |-> None]

\* main's payload dict (before add_assignment adds the group)
MainPayload(data) ==
    [id |-> data.id, published |-> data.published,
     points_possible |-> data.points_possible, assignment_group_id |-> None]

\* add_assignment: payload["assignment"]["assignment_group_id"] = group_id, if group_id
WithGroup(assignment, gid) ==
    IF Truthy(gid) THEN [assignment EXCEPT !.assignment_group_id = gid] ELSE assignment

NoExisting == [found |-> FALSE, published |-> FALSE]

HasIdentityKeyPresent(assignment) == TRUE

\* lines 328 and 331: assignment.get("id") is truthy
HasIdentity(assignment) == Truthy(assignment.id)

\* the run of main is over: record what add_assignment did
RunRecord(path, kind, value, status) ==
    [path |-> path, kind |-> kind, value |-> value, status |-> status,
     remote_before |-> remote_start, remote_after |-> remote']

EndRun(path, kind, value, status) ==
    /\ runs' = Append(runs, RunRecord(path, kind, value, status))
    /\ pc' = "done"

\* main, lines 36-52 and 66-79: load, fetch the groups, resolve the group, call
MainResolveGroup ==
    /\ pc = "main"
    /\ UNCHANGED <<assignment_data, groups_remote, remote, remote_start, run,
                   existing_assignment, walk_vars, more_vars, mat_vars, rubric_vars>>
    /\ \E status \in {200, 500} :
        /\ reqs' = Append(reqs, Request("GET", "assignment_groups", None, NoBody, status))
        /\ IF status # 200
           THEN /\ log' = Append(log, LogEntry("error", "An error occurred", status))
                /\ EndRun("not_called", "none", None, status)
                /\ UNCHANGED <<group_id, payload>>
           ELSE /\ group_id' = find_group_id(assignment_data.group_name, GroupsDict(groups_remote))
                /\ IF ~Truthy(group_id')
                   THEN /\ log' = Append(log, LogEntry("error", "group not found", None))
                        /\ EndRun("not_called", "none", None, 0)
                        /\ UNCHANGED payload
                   ELSE /\ payload' = MainPayload(assignment_data)
                        /\ pc' = "add_assignment"
                        /\ UNCHANGED <<log, runs>>

\* get_single_assignment's answers: the record, or a failure; for an id the
\* service does not hold: not-found, or an empty body
SingleAssignmentAnswers(id) ==
    IF id \in DOMAIN remote
    THEN {[status |-> 200, body |-> [found |-> TRUE, published |-> remote[id].published]],
          [status |-> 500, body |-> NoExisting]}
    ELSE {[status |-> 404, body |-> NoExisting],
          [status |-> 200, body |-> NoExisting]}

\* add_assignment lines 321-332 with an id: the group is put in the payload and
\* the assignment is fetched; get_single_assignment raises on a non-200 status
AddAssignmentFetch ==
    /\ pc = "add_assignment"
    /\ UNCHANGED <<assignment_data, groups_remote, remote, remote_start, run, group_id,
                   walk_vars, more_vars, mat_vars, rubric_vars>>
    /\ HasIdentity(payload)
    /\ payload' = WithGroup(payload, group_id)
    /\ \E a \in SingleAssignmentAnswers(payload.id) :
        /\ reqs' = Append(reqs, Request("GET", "assignments", payload.id, NoBody, a.status))
        /\ IF a.status # 200
           THEN /\ log' = Append(log, LogEntry("error", "An error occurred", a.status))
                /\ EndRun("fetch_failed", "raise", None, a.status)
                /\ UNCHANGED existing_assignment
           ELSE /\ existing_assignment' = a.body
                /\ pc' = "fetched"
                /\ UNCHANGED <<log, runs>>

PublishedIgnored(existing) == FALSE

\* line 334: existing_assignment.get("published")
Published(existing) == existing.published

\* lines 333-338: the existing assignment is published
AddAssignmentAbort ==
    /\ pc = "fetched"
    /\ UNCHANGED <<assignment_data, groups_remote, remote, remote_start, run, payload,
                   group_id, existing_assignment, reqs, walk_vars, more_vars, mat_vars, rubric_vars>>
    /\ existing_assignment.found
    /\ Published(existing_assignment)
    /\ log' = Append(log, LogEntry("error", "already published. Aborting", payload.id))
    /\ EndRun("abort", "return", None, 0)

UpdateOkAny2xx(status) == status >= 200 /\ status <= 299

\* line 347
UpdateOk(status) == status = 200

\* lines 339-353: the existing assignment is not published
AddAssignmentUpdate ==
    /\ pc = "fetched"
    /\ existing_assignment.found
    /\ ~Published(existing_assignment)
    /\ \E status \in WriteStatuses :
        /\ reqs' = Append(reqs, Request("PUT", "assignments", payload.id, payload, status))
        /\ remote' = IF Applied(status) /\ payload.id \in DOMAIN remote
                     THEN [remote EXCEPT ![payload.id] = Content(payload)]
                     ELSE remote
        /\ IF UpdateOk(status)
           THEN /\ log' = log \o <<LogEntry("info", "exists. Updating", payload.id),
                                   LogEntry("info", "updated successfully", payload.id)>>
                /\ EndRun("update", "return", None, status)
           ELSE /\ log' = log \o <<LogEntry("info", "exists. Updating", payload.id),
                                   LogEntry("error", "An error occurred", status)>>
                /\ EndRun("update", "raise", None, status)
    /\ UNCHANGED <<assignment_data, groups_remote, remote_start, run, payload, group_id,
                   existing_assignment, walk_vars, more_vars, mat_vars, rubric_vars>>

CreateOkAny2xx(status) == status >= 200 /\ status <= 299

\* line 361
CreateOk(status) == status = 201

\* add_assignment has no return statement on the create path
CreateReturn(new_id) == None

\* lines 359-367: POST the payload `p`
Create(p, before) ==
    \E status \in WriteStatuses :
        LET new_id == Len(remote) + 1
        IN  /\ reqs' = Append(reqs, Request("POST", "assignments", None, p, status))
            /\ remote' = IF Applied(status) THEN Append(remote, Content(p)) ELSE remote
            /\ IF CreateOk(status)
               THEN /\ log' = log \o before \o
                                <<LogEntry("info", "created successfully with ID", new_id)>>
                    /\ EndRun("create", "return", CreateReturn(new_id), status)
               ELSE /\ log' = log \o before \o <<LogEntry("error", "An error occurred", status)>>
                    /\ EndRun("create", "raise", None, status)

\* no id: lines 321-331, then 359-367
AddAssignmentCreate ==
    /\ pc = "add_assignment"
    /\ ~HasIdentity(payload)
    /\ payload' = WithGroup(payload, group_id)
    /\ Create(payload', <<>>)
    /\ UNCHANGED <<assignment_data, groups_remote, remote_start, run, group_id,
                   existing_assignment, walk_vars, more_vars, mat_vars, rubric_vars>>

\* a create for a payload with an id that was never fetched
AddAssignmentCreateUnfetched ==
    /\ pc = "add_assignment"
    /\ HasIdentity(payload)
    /\ Create(payload, <<>>)
    /\ UNCHANGED <<assignment_data, groups_remote, remote_start, run, payload, group_id,
                   existing_assignment, walk_vars, more_vars, mat_vars, rubric_vars>>

\* lines 354-357, then 359-367: the fetch answered 200 with a falsy body
AddAssignmentCreateNotFound ==
    /\ pc = "fetched"
    /\ ~existing_assignment.found
    /\ Create(payload, <<LogEntry("error", "cannot be found. Creating", payload.id)>>)
    /\ UNCHANGED <<assignment_data, groups_remote, remote_start, run, payload, group_id,
                   existing_assignment, walk_vars, more_vars, mat_vars, rubric_vars>>

\* main is run again on the same input file
MainAgain ==
    /\ pc = "done"
    /\ run < MaxRuns
    /\ run' = run + 1
    /\ pc' = "main"
    /\ remote_start' = remote
    /\ payload' = NoBody
    /\ group_id' = None
    /\ existing_assignment' = NoExisting
    /\ UNCHANGED <<assignment_data, groups_remote, remote, log, runs, reqs, walk_vars, more_vars, mat_vars, rubric_vars>>

UpsertIdle ==
    /\ assignment_data = NoBody
    /\ groups_remote = <<>>
    /\ remote = <<>>
    /\ remote_start = <<>>
    /\ pc = "idle"
    /\ run = 0
    /\ payload = NoBody
    /\ group_id = None
    /\ existing_assignment = NoExisting
    /\ log = <<>>
    /\ runs = <<>>

WalkIdle ==
    /\ walk_fn = "none"
    /\ walk_url = NoUrl
    /\ walk_params = FALSE
    /\ walk_acc = <<>>
    /\ response = NoResponse
    /\ resps = <<>>
    /\ walk_result = Pending

UpsertStart ==
    /\ assignment_data \in AssignmentData
    /\ groups_remote \in GroupLists
    /\ remote \in InitialRemotes
    /\ remote_start = remote
    /\ pc = "main"
    /\ run = 1
    /\ payload = NoBody
    /\ group_id = None
    /\ existing_assignment = NoExisting
    /\ log = <<>>
    /\ runs = <<>>
    /\ reqs = <<>>

UpsertNext ==
    \/ MainResolveGroup
    \/ AddAssignmentFetch
    \/ AddAssignmentAbort
    \/ AddAssignmentUpdate
    \/ AddAssignmentCreate
    \/ AddAssignmentCreateNotFound
    \/ MainAgain

-----------------------------------------------------------------------------
(* Properties of add_assignment *)

\* the requests of run i with the given method and endpoint
ReqIdx(i, method, url) ==
    {k \in 1..Len(reqs) : reqs[k].run = i /\ reqs[k].method = method /\ reqs[k].url = url}

Posts(i) == ReqIdx(i, "POST", "assignments")
Puts(i) == ReqIdx(i, "PUT", "assignments")
Gets(i) == ReqIdx(i, "GET", "assignments")
Writes(i) == Posts(i) \cup Puts(i)

\* add_assignment was called in run i
Called(i) == runs[i].path # "not_called"

Logged(i, level, msg, id) ==
    \E n \in 1..Len(log) :
        log[n].run = i /\ log[n].level = level /\ log[n].msg = msg /\ log[n].id = id

\* C3: without an identity add_assignment issues exactly one POST and neither
\* a GET nor a PUT of an assignment, whatever the service holds.
C3_NoIdentityCreatesOnce ==
    assignment_data.id = None =>
        /\ \A k \in 1..Len(reqs) : reqs[k].url = "assignments" => reqs[k].method = "POST"
        /\ \A i \in 1..Len(runs) : Called(i) => Cardinality(Posts(i)) = 1
        /\ \A i \in 1..run : Cardinality(Posts(i)) <= 1

C3_Witness ==
    /\ assignment_data.id = None
    /\ Len(runs) = 2
    /\ runs[1].path = "create" /\ runs[2].path = "create"
    /\ runs[1].remote_before # <<>>

\* the identity of the descriptor names a published record when run i begins
LockedAt(i) ==
    /\ Truthy(assignment_data.id)
    /\ assignment_data.id \in DOMAIN runs[i].remote_before
    /\ runs[i].remote_before[assignment_data.id].published

\* C4 as claimed: on a published record no write is issued, the record is
\* unchanged, and the outcome differs from that of a completed update or create.
C4_Original ==
    \A i \in 1..Len(runs) :
        (Called(i) /\ LockedAt(i) /\ runs[i].path = "abort") =>
            /\ Writes(i) = {}
            /\ runs[i].remote_after = runs[i].remote_before
            /\ \A j \in 1..Len(runs) :
                  (runs[j].path \in {"update", "create"} /\ runs[j].kind = "return") =>
                      <<runs[i].kind, runs[i].value>> # <<runs[j].kind, runs[j].value>>

\* C4 as amended: on a published record no write is issued and the record is
\* unchanged; when the fetch succeeds add_assignment logs the abort as an error
\* and returns None, the value every normal return of add_assignment has.
C4_LockedAbortsWithoutWrite ==
    /\ \A i \in 1..Len(runs) :
        (Called(i) /\ LockedAt(i)) =>
            /\ Writes(i) = {}
            /\ runs[i].remote_after = runs[i].remote_before
            /\ (\A k \in Gets(i) : reqs[k].status = 200) =>
                  /\ runs[i].path = "abort"
                  /\ runs[i].kind = "return"
                  /\ runs[i].value = None
                  /\ Logged(i, "error", "already published. Aborting", assignment_data.id)
    /\ \A j \in 1..Len(runs) : runs[j].kind = "return" => runs[j].value = None

C4_Witness ==
    /\ Len(runs) = 2
    /\ runs[1].path = "update" /\ runs[1].kind = "return"
    /\ LockedAt(2) /\ runs[2].path = "abort"

\* C5 as claimed: when the fetch of the identity fails, exactly one POST
\* follows the failed GET in the same call and no PUT.
C5_FetchFailureCreates ==
    \A i \in 1..Len(runs) :
        \A k \in Gets(i) :
            reqs[k].status # 200 =>
                /\ Cardinality(Posts(i)) = 1
                /\ \A p \in Posts(i) : p > k
                /\ Puts(i) = {}

\* the identity of the descriptor names an unpublished record when run i begins
UnlockedAt(i) ==
    /\ Truthy(assignment_data.id)
    /\ assignment_data.id \in DOMAIN runs[i].remote_before
    /\ ~runs[i].remote_before[assignment_data.id].published

FoundUnlocked(i) ==
    Called(i) /\ UnlockedAt(i) /\ Gets(i) # {} /\ \A k \in Gets(i) : reqs[k].status = 200

OnePutToIdentity(i) ==
    /\ Cardinality(Puts(i)) = 1
    /\ \A k \in Puts(i) : reqs[k].id = assignment_data.id
    /\ Posts(i) = {}

AllAnswered200(i) == \A k \in 1..Len(reqs) : reqs[k].run = i => reqs[k].status = 200

\* run i issued one PUT and no POST, and left the record equal to the payload
UpdatedToPayload(i) ==
    /\ OnePutToIdentity(i)
    /\ \A k \in Puts(i) :
          /\ reqs[k].body.published = assignment_data.published
          /\ reqs[k].body.points_possible = assignment_data.points_possible
          /\ runs[i].remote_after[assignment_data.id] = Content(reqs[k].body)

TwoRunsAnswered ==
    /\ Len(runs) >= 2
    /\ UnlockedAt(1)
    /\ Called(1) /\ Called(2)
    /\ AllAnswered200(1) /\ AllAnswered200(2)

\* C7 as claimed: for every descriptor naming an unpublished record, two runs
\* (every request answered 200) give two PUTs, no POST, and the record equals
\* the payload after each run.
C7_Original == TwoRunsAnswered => (UpdatedToPayload(1) /\ UpdatedToPayload(2))

\* C7 as amended: the same for descriptors whose payload has published = false.
C7_IdempotentWhenPayloadUnpublished ==
    (TwoRunsAnswered /\ ~assignment_data.published) =>
        (UpdatedToPayload(1) /\ UpdatedToPayload(2))

C7_Witness ==
    /\ TwoRunsAnswered
    /\ ~assignment_data.published
    /\ assignment_data.points_possible = 5
    /\ runs[1].path = "update" /\ runs[2].path = "update"
    /\ runs[1].remote_before # runs[1].remote_after
    /\ runs[2].remote_before = runs[2].remote_after

\* C8 as claimed: the create path succeeds exactly for status 201 and then
\* returns the new identity; every other status is an error.
C8_Original ==
    \A i \in 1..Len(runs) :
        \A k \in Posts(i) :
            /\ reqs[k].status = 201 =>
                  runs[i].kind = "return" /\ runs[i].value = Len(runs[i].remote_after)
            /\ reqs[k].status # 201 => runs[i].kind = "raise"

\* C8 as amended: the create path succeeds exactly for status 201; the new
\* identity is logged and None is returned; every other status is an error
\* carrying the status.
C8_CreateSucceedsOn201 ==
    \A i \in 1..Len(runs) :
        \A k \in Posts(i) :
            /\ reqs[k].status = 201 =>
                  /\ runs[i].kind = "return"
                  /\ runs[i].value = None
                  /\ Logged(i, "info", "created successfully with ID", Len(runs[i].remote_after))
            /\ reqs[k].status # 201 =>
                  runs[i].kind = "raise" /\ runs[i].status = reqs[k].status

C8_Witness ==
    /\ Len(runs) = 2
    /\ Posts(1) # {} /\ runs[1].kind = "return"
    /\ Posts(2) # {} /\ runs[2].kind = "raise" /\ runs[2].status = 200

GroupMatches(g) == Lower(g.name) = Lower(assignment_data.group_name)

GroupsFetched(i) ==
    \E k \in ReqIdx(i, "GET", "assignment_groups") : reqs[k].status = 200

\* C9 as claimed: the group is resolved by case-insensitive match; a matching
\* group of any identity lets the upsert go on with that identity as the
\* assignment_group_id of its write, and only the absence of a match aborts
\* with a not-found error before any write.
C9_GroupResolution ==
    \A i \in 1..Len(runs) :
        GroupsFetched(i) =>
            IF \E n \in 1..Len(groups_remote) : GroupMatches(groups_remote[n])
            THEN /\ Called(i)
                 /\ \A k \in Writes(i) :
                       \E n \in 1..Len(groups_remote) :
                           /\ GroupMatches(groups_remote[n])
                           /\ reqs[k].body.assignment_group_id = groups_remote[n].id
            ELSE /\ ~Called(i)
                 /\ Writes(i) = {}
                 /\ Logged(i, "error", "group not found", None)

\* the terminal states of one call, as the path it took
TerminalPaths == {"not_called", "create", "fetch_failed", "abort", "update"}

-----------------------------------------------------------------------------
(* save_submissions_with_attachments *)

MaxSubs == 2        \* submissions of the assignment

WorkflowStates == {"unsubmitted", "submitted", "graded"}

\* display names are stem and extension; attachment["url"] is None when the
\* key is missing
Attachments ==
    {[display_name |-> <<"assignment", ".md">>, url |-> 9],
     [display_name |-> <<"n", ".ipynb">>, url |-> 7],
     [display_name |-> <<"m", ".ipynb">>, url |-> 8],
     [display_name |-> <<"assignment", ".md">>, url |-> None]}

\* submission.get("attachments", []): at most two attachments
AttachmentLists == SeqsUpTo(Attachments, 2)

SubmissionShapes == [workflow_state : WorkflowStates, attachments : AttachmentLists]

\* the submissions of distinct students: the student of submission s is user s
SubmissionLists == SeqsUpTo(SubmissionShapes, MaxSubs)

\* file_name.endswith(".ipynb")
EndsWithIpynb(name) == name[Len(name)] = ".ipynb"

Root == <<"root">>

\* os.path.join(folder_path, user_name), user_name defaulting to User_<user_id>
UserFolder(s) == <<"root", "User", s>>

\* a file that exists already is left as it is
WriteFileKeepsExisting(fs, dir, name, content) ==
    IF \E f \in fs : f.dir = dir /\ f.name = name
    THEN fs
    ELSE fs \cup {[dir |-> dir, name |-> name, content |-> content]}

\* open(path, "w"): the file is created or its content replaced
WriteFile(fs, dir, name, content) ==
    {f \in fs : ~(f.dir = dir /\ f.name = name)}
        \cup {[dir |-> dir, name |-> name, content |-> content]}

MatPending == [kind |-> "pending", error |-> ""]

FileRequestPosted(s, a, url, status) ==
    [method |-> "POST", what |-> "file", sub |-> s, att |-> a, url |-> url, status |-> status]

\* download_attachment, line 88: requests.get(file_url)
FileRequest(s, a, url, status) ==
    [method |-> "GET", what |-> "file", sub |-> s, att |-> a, url |-> url, status |-> status]

Event(s, a, what) == [sub |-> s, att |-> a, what |-> what]

\* line 286: submission.get("workflow_state") != "submitted" skips
Eligible(state) == state = "submitted"

\* no earlier run
NoFirst == [kind |-> "none", reqs |-> <<>>, events |-> <<>>, dirs |-> {}, files |-> {}]

\* the remote state does not change between two runs: a request the earlier
\* run made is answered as it was then
RecordedStatuses(s, a) ==
    {mat_first.reqs[k].status :
        k \in {n \in 1..Len(mat_first.reqs) :
                  mat_first.reqs[n].sub = s /\ mat_first.reqs[n].att = a}}

SubmissionsAnswers ==
    IF RecordedStatuses(0, 0) # {} THEN RecordedStatuses(0, 0) ELSE {200, 500}

DownloadAnswers(s, a) ==
    IF RecordedStatuses(s, a) # {} THEN RecordedStatuses(s, a) ELSE {200, 404}

\* whether nbformat and the exporter get through the notebook: the same
\* notebook renders, or fails, as before
RenderAnswers(s, a) ==
    IF \E n \in 1..Len(mat_first.events) : mat_first.events[n] = Event(s, a, "rendered")
    THEN {TRUE}
    ELSE IF \E n \in 1..Len(mat_first.events) : mat_first.events[n] = Event(s, a, "render failed")
    THEN {FALSE}
    ELSE BOOLEAN

\* a rendered document named after its notebook
RenderedNameOfNotebook(name) == <<name[1], ".md">>

\* line 312: the output file name is the literal "assignment.md"
RenderedName(name) == <<"assignment", ".md">>

\* lines 163-185: the markdown written is made from the notebook file as it
\* is on disk at notebook_path
Rendering(fs, dir, name) ==
    <<"rendering of", (CHOOSE f \in fs : f.dir = dir /\ f.name = name).content>>

\* the loops move on: the next attachment, else the next submission, else return
Advance(s, a) ==
    IF a < Len(submissions[s].attachments)
    THEN /\ sub_i' = s /\ att_i' = a + 1
         /\ mat_pc' = "loop" /\ mat_result' = MatPending
    ELSE /\ sub_i' = s + 1 /\ att_i' = 1
         /\ IF s < Len(submissions)
            THEN mat_pc' = "loop" /\ mat_result' = MatPending
            ELSE mat_pc' = "done" /\ mat_result' = [kind |-> "return", error |-> ""]

\* an exception leaves the function: nothing catches it
Abort(error) ==
    /\ mat_pc' = "done"
    /\ mat_result' = [kind |-> "raise", error |-> error]
    /\ UNCHANGED <<sub_i, att_i>>

\* lines 275-283: the root folder is made and the submissions are fetched by
\* get_submissions (here a collection of one page), whose error is not caught
MatGetSubmissions ==
    /\ mat_pc = "start"
    /\ dirs' = dirs \cup {Root}
    /\ \E status \in SubmissionsAnswers :
        /\ reqs' = Append(reqs, [method |-> "GET", what |-> "submissions", sub |-> 0,
                                  att |-> 0, url |-> StartUrl, status |-> status])
        /\ IF status # 200
           THEN Abort("Failed to retrieve submissions")
           ELSE /\ sub_i' = 1 /\ att_i' = 1
                /\ IF submissions = <<>>
                   THEN mat_pc' = "done" /\ mat_result' = [kind |-> "return", error |-> ""]
                   ELSE mat_pc' = "loop" /\ mat_result' = MatPending
    /\ UNCHANGED <<submissions, files, events, mat_first, walk_vars, upsert_vars, more_vars, rubric_vars>>

\* lines 286-288: the submission is skipped
MatSkipSubmission ==
    /\ mat_pc = "loop"
    /\ ~Eligible(submissions[sub_i].workflow_state)
    /\ events' = Append(events, Event(sub_i, 0, "skipped"))
    /\ Advance(sub_i, Len(submissions[sub_i].attachments))
    /\ UNCHANGED <<submissions, dirs, files, reqs, mat_first, walk_vars, upsert_vars, more_vars, rubric_vars>>

\* lines 294-295 and 313-314: no attachments
MatNoAttachments ==
    /\ mat_pc = "loop"
    /\ Eligible(submissions[sub_i].workflow_state)
    /\ submissions[sub_i].attachments = <<>>
    /\ events' = Append(events, Event(sub_i, 0, "no attachments"))
    /\ Advance(sub_i, 0)
    /\ UNCHANGED <<submissions, dirs, files, reqs, mat_first, walk_vars, upsert_vars, more_vars, rubric_vars>>

\* lines 297-299: an attachment without url is passed over
MatSkipAttachment ==
    /\ mat_pc = "loop"
    /\ Eligible(submissions[sub_i].workflow_state)
    /\ att_i <= Len(submissions[sub_i].attachments)
    /\ ~Truthy(submissions[sub_i].attachments[att_i].url)
    /\ Advance(sub_i, att_i)
    /\ UNCHANGED <<submissions, dirs, files, events, reqs, mat_first, walk_vars, upsert_vars, more_vars, rubric_vars>>

\* lines 299-312: the student folder is made, the attachment is downloaded
\* (download_attachment, lines 85-95) and a notebook is converted
\* (convert_ipynb_to_md, lines 154-188), whose exceptions are not caught
MatDownloadAttachment ==
    /\ mat_pc = "loop"
    /\ Eligible(submissions[sub_i].workflow_state)
    /\ att_i <= Len(submissions[sub_i].attachments)
    /\ Truthy(submissions[sub_i].attachments[att_i].url)
    /\ LET a == submissions[sub_i].attachments[att_i]
           folder == UserFolder(sub_i)
       IN  /\ dirs' = dirs \cup {folder}
           /\ \E status \in DownloadAnswers(sub_i, att_i) :
                LET downloaded == IF status = 200
                                  THEN WriteFile(files, folder, a.display_name, <<"url", a.url>>)
                                  ELSE files
                    present == \E f \in downloaded : f.dir = folder /\ f.name = a.display_name
                    ev == Event(sub_i, att_i,
                                IF status = 200 THEN "downloaded" ELSE "download failed")
                IN  /\ reqs' = Append(reqs, FileRequest(sub_i, att_i, a.url, status))
                    /\ IF ~EndsWithIpynb(a.display_name)
                       THEN /\ files' = downloaded
                            /\ events' = Append(events, ev)
                            /\ Advance(sub_i, att_i)
                       ELSE IF ~present
                       THEN /\ files' = downloaded
                            /\ events' = events \o <<ev, Event(sub_i, att_i, "render failed")>>
                            /\ Abort("Notebook file not found")
                       ELSE \E rendered \in RenderAnswers(sub_i, att_i) :
                            IF ~rendered
                            THEN /\ files' = downloaded
                                 /\ events' = events \o <<ev, Event(sub_i, att_i, "render failed")>>
                                 /\ Abort("renderer failed")
                            ELSE /\ files' = WriteFile(downloaded, folder,
                                                       RenderedName(a.display_name),
                                                       Rendering(downloaded, folder, a.display_name))
                                 /\ events' = events \o <<ev, Event(sub_i, att_i, "rendered")>>
                                 /\ Advance(sub_i, att_i)
    /\ UNCHANGED <<submissions, mat_first, walk_vars, upsert_vars, more_vars, rubric_vars>>

MatIdle ==
    /\ mat_pc = "idle"
    /\ submissions = <<>>
    /\ sub_i = 0
    /\ att_i = 0
    /\ dirs = {}
    /\ files = {}
    /\ events = <<>>
    /\ mat_result = MatPending
    /\ mat_first = NoFirst

MatStart ==
    /\ mat_pc = "start"
    /\ submissions \in SubmissionLists
    /\ sub_i = 0
    /\ att_i = 0
    /\ dirs \in {{}, {Root}}
    /\ files = {}
    /\ events = <<>>
    /\ mat_result = MatPending
    /\ mat_first = NoFirst
    /\ reqs = <<>>

MatNext ==
    \/ MatGetSubmissions
    \/ MatSkipSubmission
    \/ MatNoAttachments
    \/ MatSkipAttachment
    \/ MatDownloadAttachment

\* the process is stopped part-way through the walk
MatStopped ==
    /\ mat_pc = "loop"
    /\ mat_first = NoFirst
    /\ mat_pc' = "done"
    /\ mat_result' = [kind |-> "stopped", error |-> ""]
    /\ UNCHANGED <<submissions, sub_i, att_i, dirs, files, events, mat_first, reqs,
                   walk_vars, upsert_vars, more_vars, rubric_vars>>

\* save_submissions_with_attachments is called again with the same arguments:
\* the local tree is as the earlier run left it
MatAgain ==
    /\ mat_pc = "done"
    /\ mat_first = NoFirst
    /\ mat_first' = [kind |-> mat_result.kind, reqs |-> reqs, events |-> events,
                      dirs |-> dirs, files |-> files]
    /\ reqs' = <<>>
    /\ events' = <<>>
    /\ mat_pc' = "start"
    /\ sub_i' = 0
    /\ att_i' = 0
    /\ mat_result' = MatPending
    /\ UNCHANGED <<submissions, dirs, files, walk_vars, upsert_vars, more_vars, rubric_vars>>

MatAgainNext == MatNext \/ MatStopped \/ MatAgain

-----------------------------------------------------------------------------
(* Properties of save_submissions_with_attachments *)

\* the outer loop is past submission s
Processed(s) == s < sub_i

FileRequests(s) == {k \in 1..Len(reqs) : reqs[k].what = "file" /\ reqs[k].sub = s}

Downloadable(s) ==
    {a \in 1..Len(submissions[s].attachments) : Truthy(submissions[s].attachments[a].url)}

\* C10 as claimed: the attachments of a submission are downloaded exactly when
\* its workflow state is submitted or graded; any other submission is passed
\* over without request, file or error.
C10_SubmittedOrGradedDownloaded ==
    \A s \in 1..Len(submissions) :
        Processed(s) =>
            IF submissions[s].workflow_state \in {"submitted", "graded"}
            THEN \A a \in Downloadable(s) : \E k \in FileRequests(s) : reqs[k].att = a
            ELSE /\ FileRequests(s) = {}
                 /\ ~\E f \in files : f.dir = UserFolder(s)
                 /\ UserFolder(s) \notin dirs

\* the attachment files of submission s: what lies in the student folder, the
\* rendered document aside
AttachmentFiles(s) ==
    {f \in files : f.dir = UserFolder(s) /\ f.content[1] = "url"}

\* every attachment of submission s has a url and every download of it succeeded
AllDownloadsSucceeded(s) ==
    /\ \A a \in 1..Len(submissions[s].attachments) : a \in Downloadable(s)
    /\ \A k \in FileRequests(s) : reqs[k].status = 200

\* C11 as claimed: an unsubmitted submission leaves no student directory and no
\* file; a submitted submission with n attachments, all downloads succeeding,
\* leaves exactly n attachment files in the student folder, one per attachment.
C11_FileCount ==
    \A s \in 1..Len(submissions) :
        Processed(s) =>
            /\ submissions[s].workflow_state = "unsubmitted" =>
                  /\ UserFolder(s) \notin dirs
                  /\ ~\E f \in files : f.dir = UserFolder(s)
            /\ (submissions[s].workflow_state = "submitted" /\ AllDownloadsSucceeded(s)) =>
                  Cardinality(AttachmentFiles(s)) = Len(submissions[s].attachments)

\* the walk ended with an exception raised while it was at attachment a of
\* submission s
AbortedAt(s, a) ==
    mat_pc = "done" /\ mat_result.kind = "raise" /\ sub_i = s /\ att_i = a

\* the download of attachment a of submission s was answered with `status`
DownloadAnswered(s, a, status) ==
    \E k \in FileRequests(s) : reqs[k].att = a /\ reqs[k].status = status

IsEvent(s, a, what) == \E n \in 1..Len(events) : events[n] = Event(s, a, what)

\* C12 as claimed: a failed download of an attachment, notebook or not, is
\* reported and the walk goes on past that attachment.
C12_DownloadFailureTolerated ==
    \A s \in 1..Len(submissions) :
        \A a \in 1..Len(submissions[s].attachments) :
            DownloadAnswered(s, a, 404) =>
                /\ IsEvent(s, a, "download failed")
                /\ ~AbortedAt(s, a)

\* C13 as claimed: a renderer failure on a downloaded notebook does not block
\* processing: the walk goes on past that notebook.
C13_RenderFailureTolerated ==
    \A s \in 1..Len(submissions) :
        \A a \in 1..Len(submissions[s].attachments) :
            (DownloadAnswered(s, a, 200) /\ IsEvent(s, a, "render failed")) =>
                ~AbortedAt(s, a)

\* C24: every request of the walk is a GET, of the submissions collection or of
\* the url of an attachment of a fetched submission.
C24_ReadsOnly ==
    \A k \in 1..Len(reqs) :
        /\ reqs[k].method = "GET"
        /\ \/ reqs[k].what = "submissions" /\ k = 1
           \/ /\ reqs[k].what = "file"
              /\ reqs[k].sub \in 1..Len(submissions)
              /\ reqs[k].att \in Downloadable(reqs[k].sub)
              /\ reqs[k].url = submissions[reqs[k].sub].attachments[reqs[k].att].url

\* a finished walk with downloads that succeeded and one that failed
C24_Witness ==
    /\ mat_pc = "done"
    /\ mat_result.kind = "return"
    /\ Len(reqs) >= 4
    /\ \E k \in 1..Len(reqs) : reqs[k].what = "file" /\ reqs[k].status = 404
    /\ \E k \in 1..Len(reqs) : reqs[k].what = "file" /\ reqs[k].status = 200

\* the rendered documents in the folder of submission s
RenderedDocs(s) ==
    {f \in files : f.dir = UserFolder(s) /\ f.content[1] = "rendering of"}

\* the notebook attachments of submission s that are downloaded
Notebooks(s) == {a \in Downloadable(s) : EndsWithIpynb(submissions[s].attachments[a].display_name)}

\* the attachments named assignment.md whose download wrote the file
NamedAsRendered(s) ==
    {a \in Downloadable(s) :
        /\ submissions[s].attachments[a].display_name = <<"assignment", ".md">>
        /\ DownloadAnswered(s, a, 200)}

Last(S) == CHOOSE a \in S : \A b \in S : b <= a

\* C30: a student folder never holds more than one rendered document and it is
\* named assignment.md; when the walk has returned, assignment.md of a
\* submission with notebooks is the rendering of its last notebook, unless an
\* attachment named assignment.md came after that notebook and took the path.
C30_OneRenderedDocument ==
    \A s \in 1..Len(submissions) :
        /\ Cardinality(RenderedDocs(s)) <= 1
        /\ \A f \in RenderedDocs(s) : f.name = <<"assignment", ".md">>
        /\ (mat_pc = "done" /\ mat_result.kind = "return" /\ submissions[s].workflow_state = "submitted") =>
              IF Notebooks(s) = {}
              THEN RenderedDocs(s) = {}
              ELSE LET last == Last(Notebooks(s))
                       taken == \E a \in NamedAsRendered(s) : a > last
                   IN  \E f \in files :
                          /\ f.dir = UserFolder(s)
                          /\ f.name = <<"assignment", ".md">>
                          /\ f.content = IF taken THEN <<"url", 9>>
                                         ELSE <<"rendering of",
                                                <<"url", submissions[s].attachments[last].url>>>>

\* two notebooks of different names, both kept, one rendered document: of the second
C30_Witness ==
    /\ mat_pc = "done"
    /\ mat_result.kind = "return"
    /\ Len(submissions) >= 1
    /\ Notebooks(1) = {1, 2}
    /\ submissions[1].attachments[1].display_name # submissions[1].attachments[2].display_name
    /\ Cardinality(AttachmentFiles(1)) = 2
    /\ \E f \in RenderedDocs(1) : f.content = <<"rendering of", <<"url", 8>>>>

\* the tree a run leaves when it starts from an empty tree: the downloads and
\* renderings of the event history replayed, a later write replacing an earlier one
Overwrite(fs, dir, name, content) ==
    {f \in fs : f.dir # dir \/ f.name # name} \cup {[dir |-> dir, name |-> name, content |-> content]}

RECURSIVE FilesAfter(_, _)
FilesAfter(evs, n) ==
    IF n = 0 THEN {}
    ELSE LET fs == FilesAfter(evs, n - 1)
             e == evs[n]
             dir == UserFolder(e.sub)
         IN  IF e.what = "downloaded"
             THEN Overwrite(fs, dir, submissions[e.sub].attachments[e.att].display_name,
                            <<"url", submissions[e.sub].attachments[e.att].url>>)
             ELSE IF e.what = "rendered"
             THEN Overwrite(fs, dir, <<"assignment", ".md">>,
                            <<"rendering of",
                              (CHOOSE f \in fs :
                                  /\ f.dir = dir
                                  /\ f.name = submissions[e.sub].attachments[e.att].display_name).content>>)
             ELSE fs

DirsAfter(rs) == {Root} \cup {UserFolder(rs[k].sub) : k \in {n \in 1..Len(rs) : rs[n].what = "file"}}

IsPrefix(a, b) == Len(a) <= Len(b) /\ \A i \in 1..Len(a) : a[i] = b[i]

\* C25: a second run against the unchanged remote state ends as a run on an
\* empty tree does, with no other error; it repeats what the first run did and
\* goes on from there; the tree it leaves is the tree of a single run from an
\* empty tree; and after a first run that ran to its end the tree is unchanged.
C25_RerunIdempotent ==
    (mat_first # NoFirst /\ mat_pc = "done") =>
        /\ mat_result.kind \in {"return", "raise"}
        /\ mat_result.kind = "raise" =>
              mat_result.error \in {"Failed to retrieve submissions", "Notebook file not found",
                                    "renderer failed"}
        /\ IsPrefix(mat_first.reqs, reqs)
        /\ IsPrefix(mat_first.events, events)
        /\ files = FilesAfter(events, Len(events))
        /\ dirs = DirsAfter(reqs)
        /\ mat_first.kind \in {"return", "raise"} =>
              /\ files = mat_first.files
              /\ dirs = mat_first.dirs
              /\ reqs = mat_first.reqs
              /\ mat_result.kind = mat_first.kind

\* a first run stopped after writing some files, a second run that returned
\* having written over them and added more
C25_Witness ==
    /\ mat_first.kind = "stopped"
    /\ mat_pc = "done"
    /\ mat_result.kind = "return"
    /\ mat_first.files # {}
    /\ mat_first.files # files
    /\ \E f \in files : f.content[1] = "rendering of"

-----------------------------------------------------------------------------
(* validate_rubric *)

MaxCriteria == 2    \* criteria of a rubric document

\* the ratings of a criterion: `kind` tells whether "points" is missing, is a
\* value that is no int, or is the int `points`
Ratings ==
    {[kind |-> "int", points |-> 2, has_description |-> TRUE, has_long_description |-> TRUE],
     [kind |-> "int", points |-> 1, has_description |-> TRUE, has_long_description |-> TRUE],
     [kind |-> "int", points |-> 1, has_description |-> TRUE, has_long_description |-> FALSE],
     [kind |-> "int", points |-> 2, has_description |-> FALSE, has_long_description |-> TRUE],
     [kind |-> "int", points |-> -1, has_description |-> TRUE, has_long_description |-> TRUE],
     [kind |-> "absent", points |-> 0, has_description |-> TRUE, has_long_description |-> TRUE],
     [kind |-> "nonint", points |-> 0, has_description |-> TRUE, has_long_description |-> TRUE]}

\* criterion["ratings"] in the order of the dict: no rating, one rating of any
\* kind, or two ratings that have both descriptions
RatingLists == SeqsUpTo(Ratings, 1)

RatingPairs ==
    {<<a, b>> : a, b \in {r \in Ratings : /\ r.has_description
                                          /\ r.has_long_description
                                          /\ r.kind # "nonint"}}

\* a criterion; without the "ratings" key `ratings` is empty
Criteria ==
    [has_description : BOOLEAN, has_ratings : {TRUE}, ratings : RatingLists]
        \cup [has_description : {TRUE}, has_ratings : {TRUE}, ratings : RatingPairs]
        \cup [has_description : BOOLEAN, has_ratings : {FALSE}, ratings : {<<>>}]

\* rubric_data; without the "total_points" key `total_points` is 0, without
\* the "criteria" key `criteria` is empty
RubricDocuments ==
    [has_title : BOOLEAN, has_total_points : {TRUE}, total_points : {1, 3},
     has_criteria : {TRUE}, criteria : SeqsUpTo(Criteria, MaxCriteria)]
        \cup [has_title : BOOLEAN, has_total_points : {FALSE}, total_points : {0},
              has_criteria : {TRUE}, criteria : SeqsUpTo(Criteria, MaxCriteria)]
        \cup [has_title : BOOLEAN, has_total_points : {TRUE}, total_points : {1, 3},
              has_criteria : {FALSE}, criteria : {<<>>}]
        \cup [has_title : BOOLEAN, has_total_points : {FALSE}, total_points : {0},
              has_criteria : {FALSE}, criteria : {<<>>}]

NoRubric ==
    [has_title |-> FALSE, has_total_points |-> FALSE, total_points |-> 0,
     has_criteria |-> FALSE, criteria |-> <<>>]

\* one entry of `errors`: the mark the text starts with (error or warning),
\* what it says, the criterion and rating it names, and the two totals of the
\* mismatch message
Message(mark, what, crit, rating, sum, stated) ==
    [mark |-> mark, what |-> what, crit |-> crit, rating |-> rating,
     sum |-> sum, stated |-> stated]

Max(a, b) == IF a >= b THEN a ELSE b

\* lines 73-87: the messages of rating j of criterion c
RatingMessages(c, j, rating) ==
    (IF rating.kind = "absent"
     THEN <<Message("error", "Missing 'points'", c, j, 0, 0)>>
     ELSE IF rating.kind = "nonint"
     THEN <<Message("error", "'points' must be an integer", c, j, 0, 0)>>
     ELSE <<>>)
    \o (IF ~rating.has_description
        THEN <<Message("error", "Missing 'description' in rating", c, j, 0, 0)>>
        ELSE <<>>)
    \o (IF ~rating.has_long_description
        THEN <<Message("warning", "Missing 'long_description'", c, j, 0, 0)>>
        ELSE <<>>)

\* lines 72-87 over the first n ratings
RECURSIVE RatingsMessages(_, _, _)
RatingsMessages(c, ratings, n) ==
    IF n = 0 THEN <<>>
    ELSE RatingsMessages(c, ratings, n - 1) \o RatingMessages(c, n, ratings[n])

MaxPointsLast(ratings, n) ==
    IF n = 0 \/ ratings[n].kind # "int" THEN 0 ELSE Max(0, ratings[n].points)

\* lines 71-80: max_points after the first n ratings
RECURSIVE MaxPoints(_, _)
MaxPoints(ratings, n) ==
    IF n = 0 THEN 0
    ELSE IF ratings[n].kind = "int"
    THEN Max(MaxPoints(ratings, n - 1), ratings[n].points)
    ELSE MaxPoints(ratings, n - 1)

\* lines 63-87: the messages of criterion c
CriterionMessages(c, criterion) ==
    (IF ~criterion.has_description
     THEN <<Message("error", "Missing 'description' in criterion", c, 0, 0, 0)>>
     ELSE <<>>)
    \o (IF ~criterion.has_ratings
        THEN <<Message("error", "Missing 'ratings'", c, 0, 0, 0)>>
        ELSE RatingsMessages(c, criterion.ratings, Len(criterion.ratings)))

\* lines 66-69 and 89: what criterion adds to total_points
CriterionPoints(criterion) ==
    IF ~criterion.has_ratings THEN 0
    ELSE MaxPoints(criterion.ratings, Len(criterion.ratings))

\* lines 62-89 over the first n criteria
RECURSIVE CriteriaMessages(_, _)
CriteriaMessages(criteria, n) ==
    IF n = 0 THEN <<>>
    ELSE CriteriaMessages(criteria, n - 1) \o CriterionMessages(n, criteria[n])

TotalPointsLast(criteria, n) ==
    IF n = 0 THEN 0 ELSE CriterionPoints(criteria[n])

\* lines 56 and 89: total_points after the first n criteria
RECURSIVE TotalPoints(_, _)
TotalPoints(criteria, n) ==
    IF n = 0 THEN 0
    ELSE TotalPoints(criteria, n - 1) + CriterionPoints(criteria[n])

\* lines 46-55
HeadMessages(doc) ==
    (IF ~doc.has_title THEN <<Message("error", "missing 'title'", 0, 0, 0, 0)>> ELSE <<>>)
    \o (IF ~doc.has_total_points
        THEN <<Message("error", "missing 'total_points'", 0, 0, 0, 0)>>
        ELSE <<>>)

\* lines 91-92
MismatchMessages(doc, total) ==
    IF doc.has_total_points /\ total # doc.total_points
    THEN <<Message("warning", "Total points mismatch", 0, 0, total, doc.total_points)>>
    ELSE <<>>

ValidMessage == Message("ok", "Rubric is valid", 0, 0, 0, 0)

\* line 94: `if errors` - any message at all
OkWhen(errors) == errors = <<>>

StopsEarlyNever(doc) == FALSE

\* line 58: "criteria" not in rubric_data
StopsEarly(doc) == ~doc.has_criteria

\* validate_rubric, lines 44-96
validate_rubric(doc) ==
    IF StopsEarly(doc)
    THEN [ok |-> FALSE,
          messages |-> HeadMessages(doc)
                         \o <<Message("error", "missing 'criteria'", 0, 0, 0, 0)>>]
    ELSE LET total == TotalPoints(doc.criteria, Len(doc.criteria))
             errors == HeadMessages(doc)
                         \o CriteriaMessages(doc.criteria, Len(doc.criteria))
                         \o MismatchMessages(doc, total)
         IN  IF OkWhen(errors)
             THEN [ok |-> TRUE, messages |-> <<ValidMessage>>]
             ELSE [ok |-> FALSE, messages |-> errors]

ValPending == [kind |-> "pending", ok |-> FALSE, messages |-> <<>>]

\* main of upload_rubric.py calls validate_rubric on the loaded document
ValidateRubric ==
    /\ val_result.kind = "pending"
    /\ LET r == validate_rubric(rubric_data)
       IN  val_result' = [kind |-> "return", ok |-> r.ok, messages |-> r.messages]
    /\ UNCHANGED <<rubric_data, reqs, walk_vars, upsert_vars, more_vars, mat_vars, grade_vars>>

ValIdle ==
    /\ rubric_data = NoRubric
    /\ val_result = [kind |-> "idle", ok |-> FALSE, messages |-> <<>>]

ValStart ==
    /\ rubric_data \in RubricDocuments
    /\ val_result = ValPending
    /\ reqs = <<>>

ValNext == ValidateRubric

-----------------------------------------------------------------------------
(* Properties of validate_rubric *)

ValReturned == val_result.kind = "return"

HasMark(mark) == \E i \in 1..Len(val_result.messages) : val_result.messages[i].mark = mark

HasMessage(what) == \E i \in 1..Len(val_result.messages) : val_result.messages[i].what = what

\* C14 as claimed: ok is true exactly when no error-class message was produced;
\* warnings (a missing long_description, a total mismatch) leave ok true.
C14_OkIffNoError ==
    ValReturned => (val_result.ok <=> ~HasMark("error"))

\* the integer points among the ratings of a criterion
IntPoints(criterion) ==
    {criterion.ratings[j].points :
        j \in {k \in 1..Len(criterion.ratings) : criterion.ratings[k].kind = "int"}}

SetMax(S) == CHOOSE p \in S : \A q \in S : p >= q

\* the contribution as claimed: the maximum integer points among the ratings,
\* 0 without ratings or without a rating that has integer points
ClaimedContribution(criterion) ==
    IF IntPoints(criterion) = {} THEN 0 ELSE SetMax(IntPoints(criterion))

\* the contribution as computed: that maximum, but never below 0
FlooredContribution(criterion) == SetMax(IntPoints(criterion) \cup {0})

RECURSIVE ClaimedTotal(_, _)
ClaimedTotal(criteria, n) ==
    IF n = 0 THEN 0 ELSE ClaimedTotal(criteria, n - 1) + ClaimedContribution(criteria[n])

RECURSIVE FlooredTotal(_, _)
FlooredTotal(criteria, n) ==
    IF n = 0 THEN 0 ELSE FlooredTotal(criteria, n - 1) + FlooredContribution(criteria[n])

MismatchIdx ==
    {i \in 1..Len(val_result.messages) : val_result.messages[i].what = "Total points mismatch"}

\* the mismatch message is there exactly when total_points is present and
\* differs from `total`, and it names `total` and the stated total
MismatchExactly(total) ==
    /\ MismatchIdx # {} <=> (rubric_data.has_total_points /\ rubric_data.total_points # total)
    /\ \A i \in MismatchIdx :
          /\ val_result.messages[i].sum = total
          /\ val_result.messages[i].stated = rubric_data.total_points

C16_StopsEarlyWithoutCriteria ==
    (ValReturned /\ ~rubric_data.has_criteria) =>
        /\ ~val_result.ok
        /\ val_result.messages[Len(val_result.messages)].what = "missing 'criteria'"
        /\ \A i \in 1..Len(val_result.messages) :
              val_result.messages[i].crit = 0 /\ val_result.messages[i].rating = 0
        /\ MismatchIdx = {}
        /\ Len(val_result.messages) =
              1 + (IF rubric_data.has_title THEN 0 ELSE 1)
                + (IF rubric_data.has_total_points THEN 0 ELSE 1)

C16_Witness ==
    /\ ValReturned
    /\ ~rubric_data.has_criteria
    /\ rubric_data.has_title
    /\ rubric_data.has_total_points /\ rubric_data.total_points = 3
    /\ Len(val_result.messages) = 1

\* every field the validator looks for is there and every points is an int
WellFormed(doc) ==
    /\ doc.has_title /\ doc.has_total_points /\ doc.has_criteria
    /\ \A c \in 1..Len(doc.criteria) :
          /\ doc.criteria[c].has_description
          /\ doc.criteria[c].has_ratings
          /\ \A j \in 1..Len(doc.criteria[c].ratings) :
                /\ doc.criteria[c].ratings[j].kind = "int"
                /\ doc.criteria[c].ratings[j].has_description
                /\ doc.criteria[c].ratings[j].has_long_description

NonNegativePoints(doc) ==
    \A c \in 1..Len(doc.criteria) : \A p \in IntPoints(doc.criteria[c]) : p >= 0

TotalMatchesMaxima(doc) ==
    doc.total_points = ClaimedTotal(doc.criteria, Len(doc.criteria))

-----------------------------------------------------------------------------
(* upload_graded_rubric *)

MaxEntries == 2     \* entries of a graded rubric file

\* criterion["comment"] as characters: empty, blank, text, text after a blank
Comments == {<<>>, <<" ">>, <<"o">>, <<" ", "o">>}

\* an entry of the graded rubric; without the "score" key `score` is 0, without
\* the "comment" key `comment` is empty; its criterion_id is its position
GradedEntries ==
    [has_score : {TRUE}, score : {0, 4, 5}, has_comment : {TRUE}, comment : Comments]
        \cup [has_score : {TRUE}, score : {0, 4, 5}, has_comment : {FALSE}, comment : {<<>>}]
        \cup [has_score : {FALSE}, score : {0}, has_comment : {TRUE}, comment : Comments]
        \cup [has_score : {FALSE}, score : {0}, has_comment : {FALSE}, comment : {<<>>}]

GradedRubrics == SeqsUpTo(GradedEntries, MaxEntries)

IsSpace(c) == c = " "

RECURSIVE LStrip(_)
LStrip(str) ==
    IF str = <<>> THEN <<>>
    ELSE IF IsSpace(Head(str)) THEN LStrip(Tail(str))
    ELSE str

RECURSIVE RStrip(_)
RStrip(str) ==
    IF str = <<>> THEN <<>>
    ELSE IF IsSpace(str[Len(str)]) THEN RStrip(SubSeq(str, 1, Len(str) - 1))
    ELSE str

\* str.strip()
Strip(str) == RStrip(LStrip(str))

\* line 568: the sum of the scores of the entries that have one
RECURSIVE TotalScore(_, _)
TotalScore(rubric, n) ==
    IF n = 0 THEN 0
    ELSE TotalScore(rubric, n - 1) + (IF rubric[n].has_score THEN rubric[n].score ELSE 0)

\* line 580: criterion["score"] raises KeyError when the key is missing
ScoreRaises(entry) == ~entry.has_score

CommentIncludedWhenPresent(entry) == entry.has_comment

\* line 583: "comment" in criterion and criterion["comment"].strip()
CommentIncluded(entry) == entry.has_comment /\ Strip(entry.comment) # <<>>

\* lines 578-584 over the first n entries: the points entries
RECURSIVE PointsParams(_, _)
PointsParams(rubric, n) ==
    IF n = 0 THEN <<>>
    ELSE Append(PointsParams(rubric, n - 1), [criterion_id |-> n, value |-> rubric[n].score])

\* lines 578-584 over the first n entries: the comments entries
RECURSIVE CommentsParams(_, _)
CommentsParams(rubric, n) ==
    IF n = 0 THEN <<>>
    ELSE IF CommentIncluded(rubric[n])
    THEN Append(CommentsParams(rubric, n - 1), [criterion_id |-> n, value |-> rubric[n].comment])
    ELSE CommentsParams(rubric, n - 1)

NoParams == [user_id |-> 0, posted_grade |-> 0, points |-> <<>>, comments |-> <<>>]

\* lines 571-584
QueryParams(student, rubric) ==
    [user_id |-> student, posted_grade |-> TotalScore(rubric, Len(rubric)),
     points |-> PointsParams(rubric, Len(rubric)),
     comments |-> CommentsParams(rubric, Len(rubric))]

GradeLog(level, msg, status, text) ==
    [level |-> level, msg |-> msg, student |-> student_id, status |-> status, text |-> text]

GradePending == [kind |-> "pending", error |-> ""]

\* lines 559-561: the graded rubric file is looked for
GradeCheckFile ==
    /\ grade_pc = "start"
    /\ IF ~template_exists
       THEN /\ grade_log' = Append(grade_log, GradeLog("warning", "Graded rubric not found", 0, ""))
            /\ grade_pc' = "done"
            /\ grade_result' = [kind |-> "return", error |-> ""]
       ELSE /\ grade_pc' = "build"
            /\ UNCHANGED <<grade_log, grade_result>>
    /\ UNCHANGED <<student_id, template_exists, graded_rubric, query_params, reqs,
                   walk_vars, upsert_vars, more_vars, mat_vars, val_vars>>

\* lines 563-584: the file is loaded, the total computed, the parameters built
GradeBuild ==
    /\ grade_pc = "build"
    /\ IF \E i \in 1..Len(graded_rubric) : ScoreRaises(graded_rubric[i])
       THEN /\ grade_pc' = "done"
            /\ grade_result' = [kind |-> "raise", error |-> "KeyError: 'score'"]
            /\ UNCHANGED query_params
       ELSE /\ query_params' = QueryParams(student_id, graded_rubric)
            /\ grade_pc' = "put"
            /\ UNCHANGED grade_result
    /\ UNCHANGED <<student_id, template_exists, graded_rubric, grade_log, reqs,
                   walk_vars, upsert_vars, more_vars, mat_vars, val_vars>>

\* lines 586-601: the one PUT and the report of its outcome
GradePut ==
    /\ grade_pc = "put"
    /\ \E answer \in {[status |-> 200, text |-> ""], [status |-> 400, text |-> "e1"],
                      [status |-> 500, text |-> "e2"]} :
        /\ reqs' = Append(reqs, [method |-> "PUT", what |-> "grade", student |-> student_id,
                                  params |-> query_params, status |-> answer.status])
        /\ grade_log' = Append(grade_log,
               IF answer.status = 200
               THEN GradeLog("info", "Successfully uploaded graded rubric", 200, "")
               ELSE GradeLog("error", "Failed to upload rubric", answer.status, answer.text))
    /\ grade_pc' = "done"
    /\ grade_result' = [kind |-> "return", error |-> ""]
    /\ UNCHANGED <<student_id, template_exists, graded_rubric, query_params,
                   walk_vars, upsert_vars, more_vars, mat_vars, val_vars>>

GradeIdle ==
    /\ student_id = 0
    /\ template_exists = FALSE
    /\ graded_rubric = <<>>
    /\ query_params = NoParams
    /\ grade_pc = "idle"
    /\ grade_log = <<>>
    /\ grade_result = GradePending

GradeStart ==
    /\ student_id \in {1, 2}
    /\ template_exists \in BOOLEAN
    /\ graded_rubric \in (IF template_exists THEN GradedRubrics ELSE {<<>>})
    /\ query_params = NoParams
    /\ grade_pc = "start"
    /\ grade_log = <<>>
    /\ grade_result = GradePending
    /\ reqs = <<>>

GradeNext == GradeCheckFile \/ GradeBuild \/ GradePut

-----------------------------------------------------------------------------
(* Properties of upload_graded_rubric *)

GradePuts == {k \in 1..Len(reqs) : reqs[k].method = "PUT" /\ reqs[k].what = "grade"}

\* the sum of the scores of the entries that have one
RECURSIVE SumOfScores(_)
SumOfScores(rubric) ==
    IF rubric = <<>> THEN 0
    ELSE (IF Head(rubric).has_score THEN Head(rubric).score ELSE 0) + SumOfScores(Tail(rubric))

\* C18 as claimed: entries without a score are left out of the sum and do not
\* make the upload fail: the grade posted is the sum of the scores present.
C18_MissingScoreExcluded ==
    (grade_pc = "done" /\ template_exists) =>
        /\ grade_result.kind = "return"
        /\ \E k \in GradePuts : reqs[k].params.posted_grade = SumOfScores(graded_rubric)

\* the comment has a character that is no whitespace
NonBlank(comment) == \E j \in 1..Len(comment) : comment[j] # " "

CommentsOf(params, i) ==
    {n \in 1..Len(params.comments) : params.comments[n].criterion_id = i}

PointsOf(params, i) ==
    {n \in 1..Len(params.points) : params.points[n].criterion_id = i}

\* C19: in the payload sent, every entry has its points entry, and a comments
\* entry exactly when its comment is present and not blank; the comments entry
\* carries the comment as written and is never empty.
C19_CommentsOnlyWhenNonBlank ==
    \A k \in GradePuts :
        \A i \in 1..Len(graded_rubric) :
            /\ Cardinality(PointsOf(reqs[k].params, i)) = 1
            /\ \A n \in PointsOf(reqs[k].params, i) :
                  reqs[k].params.points[n].value = graded_rubric[i].score
            /\ CommentsOf(reqs[k].params, i) # {} <=>
                  (graded_rubric[i].has_comment /\ NonBlank(graded_rubric[i].comment))
            /\ \A n \in CommentsOf(reqs[k].params, i) :
                  /\ reqs[k].params.comments[n].value = graded_rubric[i].comment
                  /\ reqs[k].params.comments[n].value # <<>>

C19_Witness ==
    /\ GradePuts # {}
    /\ Len(graded_rubric) = 2
    /\ graded_rubric[1].has_comment /\ graded_rubric[1].comment = <<" ">>
    /\ graded_rubric[2].has_comment /\ graded_rubric[2].comment = <<" ", "o">>

\* C20 as claimed: at most one PUT and no other request; exactly one when the
\* graded rubric file exists, none when it is missing; a non-success answer is
\* the end of the upload and is reported with student, status and body.
C20_SinglePut ==
    /\ \A k \in 1..Len(reqs) : k \in GradePuts
    /\ Cardinality(GradePuts) <= 1
    /\ grade_pc = "done" =>
          Cardinality(GradePuts) = (IF template_exists THEN 1 ELSE 0)
    /\ \A k \in GradePuts :
          reqs[k].status # 200 =>
              /\ grade_pc = "done"
              /\ \E n \in 1..Len(grade_log) :
                    /\ grade_log[n].level = "error"
                    /\ grade_log[n].student = student_id
                    /\ grade_log[n].status = reqs[k].status
                    /\ grade_log[n].text # ""

-----------------------------------------------------------------------------
(* rubric_to_graderubric, in canvas_assignment and in canvas_rubric *)

MaxRubric == 2      \* criteria of a remote rubric

\* the criteria of a rubric as the service returns it
RemoteCriteria == [id : {1, 2}, description : {"d1", "d2"}, points : {0, 5}]

RemoteRubrics == SeqsUpTo(RemoteCriteria, MaxRubric)

\* an entry whose score starts at the criterion's points
TemplateEntryFullScore(criterion) ==
    [criterion_id |-> criterion.id, criterion_name |-> criterion.description,
     max_points |-> criterion.points, score |-> criterion.points, comment |-> <<>>]

\* the dict appended for one criterion; the comment "" is the empty sequence
TemplateEntry(criterion) ==
    [criterion_id |-> criterion.id, criterion_name |-> criterion.description,
     max_points |-> criterion.points, score |-> 0, comment |-> <<>>]

\* canvas_assignment.rubric_to_graderubric: the loop over the first n criteria
RECURSIVE rubric_to_graderubric(_, _)
rubric_to_graderubric(rubric, n) ==
    IF n = 0 THEN <<>>
    ELSE Append(rubric_to_graderubric(rubric, n - 1), TemplateEntry(rubric[n]))

\* canvas_rubric.rubric_to_graderubric: the loop over the first n criteria
RECURSIVE rubric_to_graderubric_of_canvas_rubric(_, _)
rubric_to_graderubric_of_canvas_rubric(rubric, n) ==
    IF n = 0 THEN <<>>
    ELSE Append(rubric_to_graderubric_of_canvas_rubric(rubric, n - 1),
                [criterion_id |-> rubric[n].id, criterion_name |-> rubric[n].description,
                 max_points |-> rubric[n].points, score |-> 0, comment |-> <<>>])

TmplPending == [kind |-> "pending", of_assignment |-> <<>>, of_rubric |-> <<>>]

\* both implementations are applied to the same rubric
RubricToGradeRubric ==
    /\ tmpl_result.kind = "pending"
    /\ tmpl_result' = [kind |-> "return",
                       of_assignment |-> rubric_to_graderubric(tmpl_rubric, Len(tmpl_rubric)),
                       of_rubric |-> rubric_to_graderubric_of_canvas_rubric(tmpl_rubric,
                                                                             Len(tmpl_rubric))]
    /\ UNCHANGED <<tmpl_rubric, upload_out, cal_vars, grp_vars, reqs, walk_vars, upsert_vars,
                   mat_vars, rubric_vars>>

TmplIdle ==
    /\ tmpl_rubric = <<>>
    /\ tmpl_result = [kind |-> "idle", of_assignment |-> <<>>, of_rubric |-> <<>>]

TmplStart ==
    /\ tmpl_rubric \in RemoteRubrics
    /\ tmpl_result = TmplPending
    /\ reqs = <<>>

TmplNext == RubricToGradeRubric

-----------------------------------------------------------------------------
(* Properties of rubric_to_graderubric *)

\* C21: the template has one entry per criterion, in order, entry i carrying
\* identity, description and points of criterion i with score 0 and an empty
\* comment; and the two implementations return the same template.
C21_TemplateOneToOne ==
    tmpl_result.kind = "return" =>
        /\ Len(tmpl_result.of_assignment) = Len(tmpl_rubric)
        /\ \A i \in 1..Len(tmpl_rubric) :
              /\ tmpl_result.of_assignment[i].criterion_id = tmpl_rubric[i].id
              /\ tmpl_result.of_assignment[i].criterion_name = tmpl_rubric[i].description
              /\ tmpl_result.of_assignment[i].max_points = tmpl_rubric[i].points
              /\ tmpl_result.of_assignment[i].score = 0
              /\ tmpl_result.of_assignment[i].comment = <<>>
        /\ tmpl_result.of_rubric = tmpl_result.of_assignment

\* two criteria that differ in identity, description and points, the one with
\* points first
C21_Witness ==
    /\ tmpl_result.kind = "return"
    /\ Len(tmpl_rubric) = 2
    /\ tmpl_rubric[1].id # tmpl_rubric[2].id
    /\ tmpl_rubric[1].description # tmpl_rubric[2].description
    /\ tmpl_rubric[1].points = 5 /\ tmpl_rubric[2].points = 0
    /\ Len(tmpl_result.of_rubric) = 2

-----------------------------------------------------------------------------
(* examples/upload_rubric.py main, after the document is loaded, and        *)
(* create_rubric                                                            *)

UploadPending == [kind |-> "pending", printed |-> <<>>]

\* the validation result counts as valid whatever it is
ValidAlways(result) == TRUE

\* line 40: `if not valid`
Valid(result) == result.ok

\* create_rubric and format_rubric_criteria index title, criteria, description,
\* ratings, and each rating's description and points: a missing key raises
CreateRaises(doc) ==
    \/ ~doc.has_title
    \/ ~doc.has_criteria
    \/ \E i \in 1..Len(doc.criteria) :
          \/ ~doc.criteria[i].has_description
          \/ ~doc.criteria[i].has_ratings
          \/ \E j \in 1..Len(doc.criteria[i].ratings) :
                \/ ~doc.criteria[i].ratings[j].has_description
                \/ doc.criteria[i].ratings[j].kind = "absent"

\* lines 40-42: the messages are printed and main returns
MainPrintErrors ==
    /\ val_result.kind = "return"
    /\ upload_out.kind = "pending"
    /\ ~Valid(val_result)
    /\ upload_out' = [kind |-> "printed", printed |-> val_result.messages]
    /\ UNCHANGED <<reqs, val_vars, grade_vars, tmpl_vars, cal_vars, grp_vars, walk_vars,
                   upsert_vars, mat_vars>>

\* line 43 and create_rubric, lines 117-141: the rubric is posted
MainCreateRubric ==
    /\ val_result.kind = "return"
    /\ upload_out.kind = "pending"
    /\ Valid(val_result)
    /\ IF CreateRaises(rubric_data)
       THEN /\ upload_out' = [kind |-> "raise", printed |-> <<>>]
            /\ UNCHANGED reqs
       ELSE \E status \in {200, 400, 500} :
            /\ reqs' = Append(reqs, [method |-> "POST", what |-> "rubrics",
                                      body |-> rubric_data, status |-> status])
            /\ upload_out' = IF status = 200
                             THEN [kind |-> "created", printed |-> <<"created successfully">>]
                             ELSE [kind |-> "failed", printed |-> <<"Failed to create rubric">>]
    /\ UNCHANGED <<val_vars, grade_vars, tmpl_vars, cal_vars, grp_vars, walk_vars,
                   upsert_vars, mat_vars>>

UploadIdle == upload_out = [kind |-> "idle", printed |-> <<>>]

UploadStart == upload_out = UploadPending

UploadNext == ValidateRubric \/ MainPrintErrors \/ MainCreateRubric

-----------------------------------------------------------------------------
(* Properties of the rubric upload flow *)

RubricPosts == {k \in 1..Len(reqs) : reqs[k].method = "POST"}

\* C27: a rubric is posted only after validate_rubric returned ok = true for
\* it, and at most once; when validation returned ok = false no request is
\* issued at all and, once main is over, the validation messages are what was
\* printed.
C27_PostOnlyWhenValid ==
    /\ Cardinality(RubricPosts) <= 1
    /\ \A k \in RubricPosts :
          /\ val_result.kind = "return"
          /\ val_result.ok
          /\ reqs[k].body = rubric_data
    /\ (val_result.kind = "return" /\ ~val_result.ok) =>
          /\ reqs = <<>>
          /\ upload_out.kind \in {"pending", "printed"}
          /\ upload_out.kind = "printed" =>
                (upload_out.printed = val_result.messages /\ upload_out.printed # <<>>)

\* a rejected document: its messages printed, nothing sent
C27_Witness ==
    /\ upload_out.kind = "printed"
    /\ Len(upload_out.printed) >= 2
    /\ reqs = <<>>

-----------------------------------------------------------------------------
(* update_calendar, delete_all_calendar_events, delete_calendar_event and   *)
(* create_calendar_event                                                    *)

PerPage == 1        \* events on one page of the listing (per_page)
MaxEvents == 2      \* calendar events of the course in the date range
MaxFile == 2        \* events in the calendar file

EventIds == 1..MaxEvents

\* the events of the course in the date range, identities distinct
CalendarLists ==
    {l \in SeqsUpTo([id : EventIds, workflow_state : {"active", "deleted"}], MaxEvents) :
        \A i, j \in 1..Len(l) : l[i].id = l[j].id => i = j}

\* the listing as the service pages it
RECURSIVE Paged(_)
Paged(l) ==
    IF l = <<>> THEN <<>>
    ELSE IF Len(l) <= PerPage THEN <<l>>
    ELSE <<SubSeq(l, 1, PerPage)>> \o Paged(SubSeq(l, PerPage + 1, Len(l)))

\* response.json() of the listing request: the first page
FirstPage(pages) == IF pages = <<>> THEN <<>> ELSE pages[1]

Titles == {"t1", "t2"}

CalendarFiles == SeqsUpTo(Titles, MaxFile)

CalRequest(method, id, title, status) ==
    [method |-> method, what |-> "calendar_events", id |-> id, title |-> title,
     status |-> status]

CalPending == [kind |-> "pending", error |-> ""]

CalRaise(error) ==
    /\ cal_pc' = "done"
    /\ cal_result' = [kind |-> "raise", error |-> error]

\* the delete loop goes on with `rest`; after it the create loop starts
AfterDelete(rest) ==
    /\ cal_events' = rest
    /\ IF rest # <<>>
       THEN cal_pc' = "delete" /\ cal_result' = CalPending
       ELSE IF cal_file # <<>>
       THEN cal_pc' = "create" /\ cal_result' = CalPending
       ELSE cal_pc' = "done" /\ cal_result' = [kind |-> "return", error |-> ""]

\* update_calendar lines 26-30 and delete_all_calendar_events lines 86-99: one
\* GET of the listing
CalListEvents ==
    /\ cal_pc = "start"
    /\ \E status \in {200, 500} :
        /\ reqs' = Append(reqs, CalRequest("GET", 0, "", status))
        /\ IF status # 200
           THEN CalRaise("Failed to retrieve events") /\ UNCHANGED cal_events
           ELSE AfterDelete(FirstPage(cal_pages))
    /\ UNCHANGED <<cal_pages, cal_remote, cal_file, cal_i, tmpl_vars, upload_out, grp_vars,
                   walk_vars, upsert_vars, mat_vars, rubric_vars>>

\* lines 101-103: an event listed as deleted is passed over
CalSkipDeleted ==
    /\ cal_pc = "delete"
    /\ Head(cal_events).workflow_state = "deleted"
    /\ AfterDelete(Tail(cal_events))
    /\ UNCHANGED <<cal_pages, cal_remote, cal_file, cal_i, reqs, tmpl_vars, upload_out,
                   grp_vars, walk_vars, upsert_vars, mat_vars, rubric_vars>>

\* the answers to a DELETE: done, found deleted already, or a refusal
DeleteAnswers ==
    {[status |-> 204, workflow_state |-> ""], [status |-> 200, workflow_state |-> "deleted"],
     [status |-> 200, workflow_state |-> "active"], [status |-> 404, workflow_state |-> ""]}

\* delete_calendar_event lines 71-76
Deleted(answer) ==
    answer.status = 204 \/ (answer.status = 200 /\ answer.workflow_state = "deleted")

\* line 104 and delete_calendar_event, lines 64-81
CalDeleteEvent ==
    /\ cal_pc = "delete"
    /\ Head(cal_events).workflow_state # "deleted"
    /\ \E answer \in DeleteAnswers :
        /\ reqs' = Append(reqs, CalRequest("DELETE", Head(cal_events).id, "", answer.status))
        /\ cal_remote' = IF answer.status = 204
                         THEN [cal_remote EXCEPT !.deleted = @ \cup {Head(cal_events).id}]
                         ELSE cal_remote
        /\ IF Deleted(answer)
           THEN AfterDelete(Tail(cal_events))
           ELSE CalRaise("Failed to delete event") /\ UNCHANGED cal_events
    /\ UNCHANGED <<cal_pages, cal_file, cal_i, tmpl_vars, upload_out, grp_vars,
                   walk_vars, upsert_vars, mat_vars, rubric_vars>>

\* every answer to the create is taken as success
EventCreatedAlways(status) == TRUE

\* create_calendar_event line 122
EventCreated(status) == status = 201

\* update_calendar lines 33-42 and create_calendar_event, lines 107-126
CalCreateEvent ==
    /\ cal_pc = "create"
    /\ \E status \in {201, 400, 500} :
        /\ reqs' = Append(reqs, CalRequest("POST", 0, cal_file[cal_i], status))
        /\ cal_remote' = IF status = 201
                         THEN [cal_remote EXCEPT !.created = Append(@, cal_file[cal_i])]
                         ELSE cal_remote
        /\ IF EventCreated(status)
           THEN /\ cal_i' = cal_i + 1
                /\ IF cal_i < Len(cal_file)
                   THEN cal_pc' = "create" /\ cal_result' = CalPending
                   ELSE cal_pc' = "done" /\ cal_result' = [kind |-> "return", error |-> ""]
           ELSE CalRaise("Failed to create event") /\ UNCHANGED cal_i
    /\ UNCHANGED <<cal_pages, cal_file, cal_events, tmpl_vars, upload_out, grp_vars,
                   walk_vars, upsert_vars, mat_vars, rubric_vars>>

CalIdle ==
    /\ cal_pages = <<>>
    /\ cal_remote = [deleted |-> {}, created |-> <<>>]
    /\ cal_file = <<>>
    /\ cal_pc = "idle"
    /\ cal_events = <<>>
    /\ cal_i = 0
    /\ cal_result = CalPending

CalStart ==
    /\ cal_pages \in {Paged(l) : l \in CalendarLists}
    /\ cal_remote = [deleted |-> {}, created |-> <<>>]
    /\ cal_file \in CalendarFiles
    /\ cal_pc = "start"
    /\ cal_events = <<>>
    /\ cal_i = 1
    /\ cal_result = CalPending
    /\ reqs = <<>>

CalNext == CalListEvents \/ CalSkipDeleted \/ CalDeleteEvent \/ CalCreateEvent

-----------------------------------------------------------------------------
(* Properties of the calendar update *)

CalReqs(method) == {k \in 1..Len(reqs) : reqs[k].method = method}

\* delete_all_calendar_events has returned normally
DeleteAllReturned ==
    \/ cal_pc = "create"
    \/ cal_pc = "done" /\ (cal_result.kind = "return" \/ CalReqs("POST") # {})

\* C22 as claimed: once delete_all_calendar_events has returned normally, every
\* event of the course in the date range that was not deleted already, on
\* whichever page of the listing, has had exactly one delete request.
C22_AllEventsDeleted ==
    DeleteAllReturned =>
        \A p \in 1..Len(cal_pages) :
            \A e \in 1..Len(cal_pages[p]) :
                cal_pages[p][e].workflow_state # "deleted" =>
                    Cardinality({k \in CalReqs("DELETE") : reqs[k].id = cal_pages[p][e].id}) = 1

\* C28: every delete request precedes every create request; when the listing
\* or a delete fails there is no create request; the creates follow the file,
\* the k-th being for the k-th event; a create that fails is the last request,
\* the run ends with its error and the calendar holds the events created
\* before it, the deletions staying in place; a run that returns has created
\* the whole file.
C28_DeleteThenCreate ==
    /\ \A d \in CalReqs("DELETE"), c \in CalReqs("POST") : d < c
    /\ \A g \in CalReqs("GET"), k \in 1..Len(reqs) : g <= k
    /\ \A k \in CalReqs("GET") \cup CalReqs("DELETE") :
          ((k \in CalReqs("GET") /\ reqs[k].status # 200)
             \/ (k \in CalReqs("DELETE") /\ reqs[k].status \notin {204, 200})) =>
                /\ CalReqs("POST") = {}
                /\ k = Len(reqs)
                /\ cal_result.kind = "raise"
    /\ cal_result.error \in {"Failed to retrieve events", "Failed to delete event"} =>
          (CalReqs("POST") = {} /\ cal_remote.created = <<>>)
    /\ LET posts == CalReqs("POST")
           first == Len(reqs) - Cardinality(posts)
       IN  /\ \A c \in posts : c > first /\ reqs[c].title = cal_file[c - first]
           /\ Cardinality(posts) <= Len(cal_file)
           /\ \A c \in posts :
                 reqs[c].status # 201 =>
                     /\ c = Len(reqs)
                     /\ cal_result = [kind |-> "raise", error |-> "Failed to create event"]
                     /\ cal_remote.created = SubSeq(cal_file, 1, c - first - 1)
           /\ cal_remote.deleted =
                 {reqs[d].id : d \in {k \in CalReqs("DELETE") : reqs[k].status = 204}}
           /\ cal_result.kind = "return" =>
                 (cal_remote.created = cal_file /\ Cardinality(posts) = Len(cal_file))

\* an event deleted, the first file event created, the second create refused
C28_Witness ==
    /\ cal_result.kind = "raise"
    /\ cal_remote.deleted # {}
    /\ Len(cal_file) = 2
    /\ Len(cal_remote.created) = 1
    /\ Cardinality(CalReqs("POST")) = 2

-----------------------------------------------------------------------------
(* process_groups, fetch_group_category, fetch_existing_groups,             *)
(* create_group and assign_student_to_group                                 *)

MaxRows == 2        \* rows of the groups file

\* group names are "Test-<n>": a name is its number
GroupNumbers == {1, 2}

\* a row: the canvas id (digits or not) and the group number
GroupRows == [canvas_id : {7, 8}, is_digit : BOOLEAN, group_number : GroupNumbers]

GroupFiles == SeqsUpTo(GroupRows, MaxRows)

\* the groups of the category as the service lists them
GroupListings ==
    {<<>>, <<[name |-> 1, id |-> 11]>>, <<[name |-> 2, id |-> 12]>>,
     <<[name |-> 1, id |-> 11], [name |-> 2, id |-> 12]>>}

\* line 94: the dict comprehension, a later group of the same name replacing
\* an earlier one
RECURSIVE NameToId(_)
NameToId(listing) ==
    IF listing = <<>> THEN {}
    ELSE LET g == listing[Len(listing)]
             d == NameToId(SubSeq(listing, 1, Len(listing) - 1))
         IN  {e \in d : e.name # g.name} \cup {g}

InGroups(name, d) == \E e \in d : e.name = name

IdOf(name, d) == (CHOOSE e \in d : e.name = name).id

GrpRequest(method, what, name, group, user, status) ==
    [method |-> method, what |-> what, name |-> name, group |-> group, user |-> user,
     status |-> status]

GrpPending == [kind |-> "pending", error |-> ""]

GrpRaise(error) ==
    /\ grp_pc' = "done"
    /\ grp_result' = [kind |-> "raise", error |-> error]

\* line 136 reads the name `headers`, which is bound neither in
\* assign_student_to_group nor at module level
HeadersDefined == FALSE

\* the identity the service gives a new group
NewGroupId(name) == 20 + name

\* fetch_group_category, lines 59-82: the categories are listed and the
\* category is created when it is not among them
GrpFetchCategory ==
    /\ grp_pc = "start"
    /\ \E listed \in {200, 500}, found \in BOOLEAN, created \in {200, 500} :
        IF listed # 200
        THEN /\ ~found /\ created = 200
             /\ reqs' = Append(reqs, GrpRequest("GET", "group_categories", 0, 0, 0, listed))
             /\ GrpRaise("HTTPError")
        ELSE IF found
        THEN /\ created = 200
             /\ reqs' = Append(reqs, GrpRequest("GET", "group_categories", 0, 0, 0, listed))
             /\ grp_pc' = "fetch" /\ grp_result' = GrpPending
        ELSE /\ reqs' = reqs \o <<GrpRequest("GET", "group_categories", 0, 0, 0, listed),
                                  GrpRequest("POST", "group_categories", 0, 0, 0, created)>>
             /\ IF RaisesForStatus(created)
                THEN GrpRaise("HTTPError")
                ELSE grp_pc' = "fetch" /\ grp_result' = GrpPending
    /\ UNCHANGED <<grp_rows, grp_remote, grp_groups, grp_i, tmpl_vars, upload_out, cal_vars,
                   walk_vars, upsert_vars, mat_vars, rubric_vars>>

\* fetch_existing_groups, lines 85-94, and line 158
GrpFetchExisting ==
    /\ grp_pc = "fetch"
    /\ \E status \in {200, 500} :
        /\ reqs' = Append(reqs, GrpRequest("GET", "groups", 0, 0, 0, status))
        /\ IF RaisesForStatus(status)
           THEN GrpRaise("HTTPError") /\ UNCHANGED grp_groups
           ELSE /\ grp_groups' = NameToId(grp_remote)
                /\ IF grp_rows = <<>>
                   THEN grp_pc' = "done" /\ grp_result' = [kind |-> "return", error |-> ""]
                   ELSE grp_pc' = "rows" /\ grp_result' = GrpPending
    /\ UNCHANGED <<grp_rows, grp_remote, grp_i, tmpl_vars, upload_out, cal_vars,
                   walk_vars, upsert_vars, mat_vars, rubric_vars>>

\* the loop moves to the next row, or process_groups returns
NextRow ==
    /\ grp_i' = grp_i + 1
    /\ IF grp_i < Len(grp_rows)
       THEN grp_pc' = "rows" /\ grp_result' = GrpPending
       ELSE grp_pc' = "done" /\ grp_result' = [kind |-> "return", error |-> ""]

\* assign_student_to_group, lines 125-146, for the row at hand and the
\* group identity `gid`, after the requests `before`
AssignStudentToGroup(row, gid, before) ==
    IF ~row.is_digit
    THEN /\ reqs' = reqs \o before
         /\ GrpRaise("ValueError") /\ UNCHANGED grp_i
    ELSE IF ~HeadersDefined
    THEN /\ reqs' = reqs \o before
         /\ GrpRaise("NameError") /\ UNCHANGED grp_i
    ELSE \E status \in {200, 409, 404, 500} :
         /\ reqs' = reqs \o before \o
                      <<GrpRequest("POST", "memberships", row.group_number, gid,
                                   row.canvas_id, status)>>
         /\ IF status \in {404, 500}
            THEN GrpRaise("HTTPError") /\ UNCHANGED grp_i
            ELSE NextRow

\* lines 162-176: one row of the file
GrpRow ==
    /\ grp_pc = "rows"
    /\ LET row == grp_rows[grp_i]
           name == row.group_number
       IN  IF InGroups(name, grp_groups)
           THEN /\ grp_groups' = grp_groups
                /\ AssignStudentToGroup(row, IdOf(name, grp_groups), <<>>)
           ELSE \E status \in {200, 500} :
                LET create == GrpRequest("POST", "groups", name, 0, 0, status)
                IN  IF RaisesForStatus(status)
                    THEN /\ reqs' = Append(reqs, create)
                         /\ GrpRaise("HTTPError")
                         /\ UNCHANGED <<grp_groups, grp_i>>
                    ELSE /\ grp_groups' = grp_groups \cup {[name |-> name, id |-> NewGroupId(name)]}
                         /\ AssignStudentToGroup(row, NewGroupId(name), <<create>>)
    /\ UNCHANGED <<grp_rows, grp_remote, tmpl_vars, upload_out, cal_vars,
                   walk_vars, upsert_vars, mat_vars, rubric_vars>>

GrpIdle ==
    /\ grp_rows = <<>>
    /\ grp_remote = <<>>
    /\ grp_groups = {}
    /\ grp_pc = "idle"
    /\ grp_i = 0
    /\ grp_result = GrpPending

GrpStart ==
    /\ grp_rows \in GroupFiles
    /\ grp_remote \in GroupListings
    /\ grp_groups = {}
    /\ grp_pc = "start"
    /\ grp_i = 1
    /\ grp_result = GrpPending
    /\ reqs = <<>>

GrpNext == GrpFetchCategory \/ GrpFetchExisting \/ GrpRow

-----------------------------------------------------------------------------
(* Properties of process_groups *)

GroupCreates(name) ==
    {k \in 1..Len(reqs) : reqs[k].method = "POST" /\ reqs[k].what = "groups" /\ reqs[k].name = name}

Memberships == {k \in 1..Len(reqs) : reqs[k].what = "memberships"}

\* no request of the run was refused
AllAccepted == \A k \in 1..Len(reqs) : reqs[k].status \in {200, 409}

\* C29 as claimed: a group is created at most once per name and never for a
\* name that was fetched; and in a run whose requests are all accepted, on a
\* file of well-formed rows, every row gets its membership request, in file
\* order, for the identity recorded for its group name.
C29_OneGroupPerName ==
    /\ \A name \in GroupNumbers :
          /\ Cardinality(GroupCreates(name)) <= 1
          /\ InGroups(name, NameToId(grp_remote)) => GroupCreates(name) = {}
    /\ (grp_pc = "done" /\ AllAccepted /\ \A r \in 1..Len(grp_rows) : grp_rows[r].is_digit) =>
          /\ grp_result.kind = "return"
          /\ Cardinality(Memberships) = Len(grp_rows)
          /\ \A r \in 1..Len(grp_rows) :
                \E k \in Memberships :
                    /\ reqs[k].user = grp_rows[r].canvas_id
                    /\ reqs[k].name = grp_rows[r].group_number
                    /\ reqs[k].group = IdOf(grp_rows[r].group_number, grp_groups)

-----------------------------------------------------------------------------
(* Specifications *)

\* the parts added to the model last are not running
MoreIdle == TmplIdle /\ UploadIdle /\ CalIdle /\ GrpIdle

AllIdle == WalkIdle /\ UpsertIdle /\ MatIdle /\ ValIdle /\ GradeIdle


InitWalk == WalkStart /\ UpsertIdle /\ MatIdle /\ ValIdle /\ GradeIdle /\ MoreIdle

InitMat == MatStart /\ WalkIdle /\ UpsertIdle /\ ValIdle /\ GradeIdle /\ MoreIdle

SpecMat == InitMat /\ [][MatNext]_vars

\* a run, complete or stopped part-way, followed by a second run, for
\* submissions that are submitted or unsubmitted
InitMatAgain ==
    /\ InitMat
    /\ \A s \in 1..Len(submissions) : submissions[s].workflow_state # "graded"

SpecMatAgain == InitMatAgain /\ [][MatAgainNext]_vars

SpecWalk == InitWalk /\ [][WalkNext]_vars

InitUpsert == UpsertStart /\ WalkIdle /\ MatIdle /\ ValIdle /\ GradeIdle /\ MoreIdle

SpecUpsert == InitUpsert /\ [][UpsertNext]_vars

\* the walks without a bound on pages; each request is answered and the loop goes on
SpecWalkOn == InitWalk /\ [][WalkOnNext]_vars /\ WF_vars(WalkOnNext)

InitValidate == ValStart /\ WalkIdle /\ UpsertIdle /\ MatIdle /\ GradeIdle /\ MoreIdle

SpecValidate == InitValidate /\ [][ValNext]_vars

InitGrade == GradeStart /\ WalkIdle /\ UpsertIdle /\ MatIdle /\ ValIdle /\ MoreIdle

SpecGrade == InitGrade /\ [][GradeNext]_vars

InitTemplate == TmplStart /\ AllIdle /\ UploadIdle /\ CalIdle /\ GrpIdle

SpecTemplate == InitTemplate /\ [][TmplNext]_vars

InitUpload == ValStart /\ UploadStart /\ WalkIdle /\ UpsertIdle /\ MatIdle /\ GradeIdle
              /\ TmplIdle /\ CalIdle /\ GrpIdle

SpecUpload == InitUpload /\ [][UploadNext]_vars

InitCalendar == CalStart /\ AllIdle /\ TmplIdle /\ UploadIdle /\ GrpIdle

SpecCalendar == InitCalendar /\ [][CalNext]_vars

InitGroups == GrpStart /\ AllIdle /\ TmplIdle /\ UploadIdle /\ CalIdle

SpecGroups == InitGroups /\ [][GrpNext]_vars

=============================================================================
